---- MODULE Spec2Model ----
(***************************************************************************)
(* Model of epub-rs: decoding of an EPUB package document                  *)
(* (src/src/epub/package_document.rs, src/src/media_type.rs).              *)
(*                                                                         *)
(* Representation.                                                         *)
(*  - Option<T>: None is <<>>, Some(v) is <<v>>.                           *)
(*  - Result<T, E>: Ok(v) is [ok |-> TRUE, val |-> v], Err(e) is           *)
(*    [ok |-> FALSE, err |-> e]; an error e is [msg |-> ..., arg |-> ...]  *)
(*    where arg is the sequence of ids the formatted message carries.      *)
(*  - a string is a TLA+ string, split character by character.            *)
(*  - an XmlElement is [event, name, attributes, children, text].          *)
(*  - HashSet / HashMap iteration order is not fixed by the code           *)
(*    (RandomState): every iteration order is a possible outcome, and an   *)
(*    order is a sequence enumerating the collection.                      *)
(***************************************************************************)
EXTENDS Integers, Sequences, FiniteSets, TLC

VARIABLES doc, pc, run, unique_identifier, version, meta_data, manifest,
          spine, ran, results,
          archive, package_documents, paths, original, written, read_back,
          tokens, tree

\* the state of an EPUBReader: the package documents of the archive in
\* rootfile order, the reader's package_documents, what spine_resources
\* returned
reader_vars == <<archive, package_documents, paths>>

\* the state of a round trip through a string table: the value, the string
\* it is written as, what the string parses to
table_vars == <<original, written, read_back>>

\* the state of a tree build: the token stream read, the tree built from it
tree_vars == <<tokens, tree>>

vars == <<doc, pc, run, unique_identifier, version, meta_data, manifest,
          spine, ran, results, reader_vars, table_vars, tree_vars>>

----------------------------------------------------------------------------
(* Bounds of the model.                                                    *)

\* longest list of <item> children in the inputs of Manifest::new
MaxItems == 3
\* number of distinct manifest item ids in use
MaxIds == 3
\* longest list of <item> children in the inputs of PackageDocument::new
MaxPackageItems == 2
\* number of invocations of PackageDocument::new on one input
MaxRuns == 2

----------------------------------------------------------------------------
(* Option and Result.                                                      *)

None == <<>>

Some(v) == <<v>>

Ok(v) == [ok |-> TRUE, val |-> v]

Err(m, a) == [ok |-> FALSE, err |-> [msg |-> m, arg |-> a]]

\* no EPUBReader and no string table is in use
NoReaderNoTable ==
  /\ archive = <<>>
  /\ package_documents = <<>>
  /\ paths = None
  /\ original = None
  /\ written = None
  /\ read_back = None
  /\ tokens = <<>>
  /\ tree = None

\* the set of all iteration orders of a hashed collection S
Orders(S) ==
  {s \in [1..Cardinality(S) -> S] :
     \A i, j \in 1..Cardinality(S) : i # j => s[i] # s[j]}

\* Iterator::find / find_map over a sequence: first element satisfying P
RECURSIVE FindFrom(_, _, _)
FindFrom(s, P(_), i) ==
  IF i > Len(s) THEN None
  ELSE IF P(s[i]) THEN Some(s[i])
  ELSE FindFrom(s, P, i + 1)

Find(s, P(_)) == FindFrom(s, P, 1)

\* Iterator::flat_map over Option-valued f, collected to a Vec
RECURSIVE FlatMapFrom(_, _, _)
FlatMapFrom(s, f(_), i) ==
  IF i > Len(s) THEN <<>>
  ELSE f(s[i]) \o FlatMapFrom(s, f, i + 1)

FlatMap(s, f(_)) == FlatMapFrom(s, f, 1)

Range(s) == {s[i] : i \in DOMAIN s}

\* str::split(sep) for a one-character separator
RECURSIVE SplitFrom(_, _, _, _)
SplitFrom(s, sep, start, i) ==
  IF i > Len(s) THEN <<SubSeq(s, start, Len(s))>>
  ELSE IF SubSeq(s, i, i) = sep
       THEN <<SubSeq(s, start, i - 1)>> \o SplitFrom(s, sep, i + 1, i + 1)
       ELSE SplitFrom(s, sep, start, i + 1)

Split(s, sep) == SplitFrom(s, sep, 1, 1)

\* str::split_whitespace: the non-empty pieces between blanks
split_whitespace(s) ==
  FlatMap(Split(s, " "), LAMBDA t : IF t = "" THEN <<>> ELSE <<t>>)

Contains(s, v) == \E i \in DOMAIN s : s[i] = v

----------------------------------------------------------------------------
(* XML names, attributes and elements.                                     *)

OPF == "http://www.idpf.org/2007/opf"

DC == "http://purl.org/dc/elements/1.1/"

OwnedName(local, ns, prefix) ==
  [local_name |-> local, namespace |-> ns, prefix |-> prefix]

\* an attribute without prefix and namespace
Attr(local, value) == [name |-> OwnedName(local, None, None), value |-> value]

StartElement(name, attributes, children, text) ==
  [event |-> "StartElement", name |-> name, attributes |-> attributes,
   children |-> children, text |-> text]

\* a character-data node (whitespace between elements)
Characters(text) ==
  [event |-> "Characters", name |-> OwnedName("", None, None),
   attributes |-> <<>>, children |-> <<>>, text |-> text]

\* Element::get_attr: first attribute whose local name is key
get_attr(attrs, key) ==
  LET hit == Find(attrs, LAMBDA a : a.name.local_name = key)
  IN IF hit = None THEN None ELSE Some(hit[1].value)

\* Element::id
attr_id(attrs) == get_attr(attrs, "id")

\* first child that is a start element with the given local name
find_section(package_element, local) ==
  Find(package_element.children,
       LAMBDA e : e.event = "StartElement" /\ e.name.local_name = local)

----------------------------------------------------------------------------
(* Media types (src/src/media_type.rs).  A MediaType is a variant with    *)
(* its payload: the subtype of a core family, or the whole string of a     *)
(* NonCoreMediaType.                                                       *)

Core(variant, sub) == [variant |-> variant, detail |-> sub]

NonCoreMediaType(s) == [variant |-> "NonCoreMediaType", detail |-> s]

ImageType_from_str(s) ==
  CASE s = "gif" -> Some("GIF")
    [] s = "jpeg" -> Some("JPEG")
    [] s = "png" -> Some("PNG")
    [] s = "svg+xml" -> Some("SVG")
    [] OTHER -> None

ApplicationType_from_str(s) ==
  CASE s = "xhtml+xml" -> Some("XhtmlXml")
    [] s = "vnd.ms-opentype" -> Some("OpenType")
    [] s = "font-woff" -> Some("WOFF")
    [] s = "smil+xml" -> Some("MediaOverlays")
    [] s = "pls+xml" -> Some("PLS")
    [] OTHER -> None

AudioType_from_str(s) ==
  CASE s = "mpeg" -> Some("MPEG")
    [] s = "mp4" -> Some("MP4")
    [] OTHER -> None

TextType_from_str(s) ==
  CASE s = "css" -> Some("CSS")
    [] s = "javascript" -> Some("JS")
    [] OTHER -> None

\* wraps a parsed subtype in its MediaType variant (Result::map)
MapVariant(variant, sub) ==
  IF sub = None THEN None ELSE Some(Core(variant, sub[1]))

\* impl FromStr for MediaType; None is Err(())
MediaType_from_str(s) ==
  LET vec == Split(s, "/")
  IN IF Len(vec) < 2 THEN None
     ELSE LET prefix == vec[1]
              detail == vec[2]
          IN CASE prefix = "image" ->
                    MapVariant("Image", ImageType_from_str(detail))
               [] prefix = "application" ->
                    MapVariant("Application", ApplicationType_from_str(detail))
               [] prefix = "audio" ->
                    MapVariant("Audio", AudioType_from_str(detail))
               [] prefix = "text" ->
                    MapVariant("Text", TextType_from_str(detail))
               [] OTHER -> Some(NonCoreMediaType(s))

\* MediaType::is_core_media_type: every variant but NonCoreMediaType
is_core_media_type(m) == m.variant # "NonCoreMediaType"

----------------------------------------------------------------------------
(* Manifest (mod manifest).                                                *)

\* impl FromStr for ManifestItemProperty; None is Err(())
ManifestItemProperty_from_str(s) ==
  CASE s = "cover-image" -> Some("cover_image")
    [] s = "mathml" -> Some("mathml")
    [] s = "nav" -> Some("nav")
    [] s = "remote_resources" -> Some("remote_resources")
    [] s = "scripted" -> Some("scripted")
    [] s = "svg" -> Some("svg")
    [] s = "switch" -> Some("switch")
    [] OTHER -> None

\* impl Element for Item: name()
Item_name == OwnedName("item", Some(OPF), None)

\* the properties attribute, split on whitespace, recognised tokens kept
Item_properties(attrs) ==
  LET p == get_attr(attrs, "properties")
  IN IF p = None THEN <<>>
     ELSE FlatMap(split_whitespace(p[1]), ManifestItemProperty_from_str)

\* the media-type attribute parsed: None when absent or not parseable
Item_media_type(attrs) ==
  LET m == get_attr(attrs, "media-type")
  IN IF m = None THEN None ELSE MediaType_from_str(m[1])

\* impl TryFrom<&XmlElement> for Item (with Element::from_xml_element);
\* None is Err(())
Item_try_from(value) ==
  IF value.event # "StartElement" \/ value.name # Item_name THEN None
  ELSE LET attrs == value.attributes
           fallback == get_attr(attrs, "fallback")
           id == attr_id(attrs)
           href == get_attr(attrs, "href")
           media_overlay == get_attr(attrs, "media-overlay")
           media_type == Item_media_type(attrs)
           properties == Item_properties(attrs)
       IN IF id = None \/ href = None \/ media_type = None THEN None
          ELSE Some([fallback |-> fallback, href |-> href[1], id |-> id[1],
                     media_overlay |-> media_overlay,
                     media_type |-> media_type[1],
                     properties |-> properties])

\* fn chain inside Manifest::new: the fallback walk from item through map,
\* vec is the history of fallback ids already followed
RECURSIVE chain(_, _, _)
chain(item, map, vec) ==
  IF is_core_media_type(item.media_type) THEN Ok(<<>>)
  ELSE IF item.fallback = None
       THEN Err("Fallback not found in non core media type <item>",
                <<item.id, item.href>>)
  ELSE LET fallback_id == item.fallback[1]
       IN IF fallback_id \notin DOMAIN map
          THEN Err("Fallback is not found", <<fallback_id>>)
          ELSE IF Contains(vec, fallback_id)
          THEN Err("Fallback chain has circular-references", vec)
          ELSE chain(map[fallback_id], map, Append(vec, fallback_id))

\* items.iter().map(|i| (&i.id, i)).collect::<HashMap>(): for an id that
\* several items have, the item inserted last (in iteration order) stays
collect_map(order) ==
  [k \in {order[i].id : i \in DOMAIN order} |->
     LET last == CHOOSE i \in DOMAIN order :
                   /\ order[i].id = k
                   /\ \A j \in DOMAIN order : order[j].id = k => j <= i
     IN order[last]]

\* map.iter().try_for_each(chain): the first error in iteration order
RECURSIVE try_for_each_chain(_, _, _)
try_for_each_chain(keys, map, i) ==
  IF i > Len(keys) THEN Ok(<<>>)
  ELSE LET r == chain(map[keys[i]], map, <<>>)
       IN IF r.ok THEN try_for_each_chain(keys, map, i + 1) ELSE r

has_property(item, p) == Contains(item.properties, p)

\* Manifest_build with the nav item looked up by the cover-image property
Manifest_build_NavByCover(id, items, items_iter, map_iter) ==
  LET cover_image == Find(items_iter, LAMBDA i : has_property(i, "cover_image"))
      nav == Find(items_iter, LAMBDA i : has_property(i, "cover_image"))
  IN IF nav = None
     THEN Err("Navigation item not found in <manifest>", <<>>)
     ELSE LET map == collect_map(items_iter)
              checked == try_for_each_chain(map_iter, map, 1)
          IN IF ~checked.ok THEN checked
             ELSE Ok([id |-> id, items |-> items,
                      cover_image |-> cover_image, nav |-> nav[1]])

\* Manifest::new after the items are collected, for one iteration order of
\* the item set and one of the id map
Manifest_build(id, items, items_iter, map_iter) ==
  LET cover_image == Find(items_iter, LAMBDA i : has_property(i, "cover_image"))
      nav == Find(items_iter, LAMBDA i : has_property(i, "nav"))
  IN IF nav = None
     THEN Err("Navigation item not found in <manifest>", <<>>)
     ELSE LET map == collect_map(items_iter)
              checked == try_for_each_chain(map_iter, map, 1)
          IN IF ~checked.ok THEN checked
             ELSE Ok([id |-> id, items |-> items,
                      cover_image |-> cover_image, nav |-> nav[1]])

\* Vec<Item> of the item children, in document order
Manifest_items(manifest_elem) == FlatMap(manifest_elem.children, Item_try_from)

\* Manifest::new: the set of results it can return for package_element
Manifest_new(package_element) ==
  LET sec == find_section(package_element, "manifest")
  IN IF sec = None THEN {Err("Manifest element not found.", <<>>)}
     ELSE LET id == attr_id(sec[1].attributes)
              items == Range(Manifest_items(sec[1]))
          IN {Manifest_build(id, items, io, mo) :
                io \in Orders(items), mo \in Orders({i.id : i \in items})}

----------------------------------------------------------------------------
(* Metadata (mod meta_data).                                               *)

\* XmlElement::inner_text: the character data below the element
inner_text(elem) == elem.text

\* impl TryFrom<&str> for Dir; None is Err(())
Dir_try_from(value) ==
  CASE value = "ltr" -> Some("ltr")
    [] value = "rtl" -> Some("rtl")
    [] OTHER -> None

\* Element::dir
attr_dir(attrs) ==
  LET a == get_attr(attrs, "dir")
  IN IF a = None THEN None ELSE Dir_try_from(a[1])

\* Element::xml_lang
attr_xml_lang(attrs) ==
  LET hit == Find(attrs, LAMBDA a : /\ a.name.local_name = "lang"
                                    /\ a.name.prefix = Some("xml"))
  IN IF hit = None THEN None ELSE Some(hit[1].value)

\* Element::from_xml_element's guard: a start element named name
is_element(value, name) == value.event = "StartElement" /\ value.name = name

\* impl FromStr for MetaDataProperty; None is Err(())
MetaDataProperty_from_str(s) ==
  IF s \in {"alternate-script", "authority", "belongs-to-collection",
            "collection-type", "display-seq", "file-as", "group-position",
            "identifier-type", "meta-auth", "role", "source-of", "term",
            "title-type"}
  THEN Some(s) ELSE None

MetaElem_name == OwnedName("meta", Some(DC), None)

\* impl TryFrom<&XmlElement> for MetaElem; None is Err(())
MetaElem_try_from(value) ==
  IF ~is_element(value, MetaElem_name) THEN None
  ELSE LET attrs == value.attributes
           p == get_attr(attrs, "property")
           property == IF p = None THEN None
                       ELSE MetaDataProperty_from_str(p[1])
       IN IF property = None THEN None
          ELSE Some([value |-> inner_text(value), dir |-> attr_dir(attrs),
                     id |-> attr_id(attrs), property |-> property[1],
                     refines |-> get_attr(attrs, "refines"),
                     scheme |-> get_attr(attrs, "scheme"),
                     xml_lang |-> get_attr(attrs, "xml:lang")])

Identifier_name == OwnedName("identifier", Some(DC), Some("dc"))

\* Identifier_try_from that does not read the id attribute
Identifier_try_from_NoId(value) ==
  IF ~is_element(value, Identifier_name) THEN None
  ELSE Some([id |-> None, identifier |-> inner_text(value)])

\* impl TryFrom<&XmlElement> for Identifier; None is Err(())
Identifier_try_from(value) ==
  IF ~is_element(value, Identifier_name) THEN None
  ELSE Some([id |-> attr_id(value.attributes),
             identifier |-> inner_text(value)])

Title_name == OwnedName("title", Some(DC), Some("dc"))

\* Title_try_from that takes a <meta> element for a title as well
Title_try_from_AlsoMeta(value) ==
  IF ~is_element(value, Title_name) /\ ~is_element(value, MetaElem_name)
  THEN None
  ELSE Some([title |-> inner_text(value), dir |-> attr_dir(value.attributes),
             id |-> attr_id(value.attributes),
             xml_lang |-> attr_xml_lang(value.attributes)])

\* impl TryFrom<&XmlElement> for Title; None is Err(())
Title_try_from(value) ==
  IF ~is_element(value, Title_name) THEN None
  ELSE Some([title |-> inner_text(value), dir |-> attr_dir(value.attributes),
             id |-> attr_id(value.attributes),
             xml_lang |-> attr_xml_lang(value.attributes)])

Language_name == OwnedName("language", Some(DC), Some("dc"))

\* impl TryFrom<&XmlElement> for Language; None is Err(())
Language_try_from(value) ==
  IF ~is_element(value, Language_name) THEN None
  ELSE Some([language |-> inner_text(value),
             id |-> attr_id(value.attributes)])

\* OptionalElementName_from_str without the arm for "type"
OptionalElementName_from_str_NoType(s) ==
  IF s \in {"contributor", "coverage", "creator", "date", "description",
            "format", "publisher", "relation", "rights", "source", "subject"}
  THEN Some(s)
  ELSE None

\* impl FromStr for OptionalElementName; None is Err(())
OptionalElementName_from_str(s) ==
  IF s \in {"contributor", "coverage", "creator", "date", "description",
            "format", "publisher", "relation", "rights", "source", "subject"}
  THEN Some(s)
  ELSE IF s = "type" THEN Some("type_") ELSE None

\* impl TryFrom<&XmlElement> for OptionalElement; None is Err(())
OptionalElement_try_from(value) ==
  IF \/ value.event # "StartElement"
     \/ value.name.prefix # Some("dc")
     \/ value.name.namespace # Some(DC)
  THEN None
  ELSE LET name == OptionalElementName_from_str(value.name.local_name)
       IN IF name = None THEN None
          ELSE Some([name |-> name[1], value |-> inner_text(value),
                     dir |-> attr_dir(value.attributes),
                     id |-> attr_id(value.attributes),
                     xml_lang |-> attr_xml_lang(value.attributes)])

\* attributes collected into a HashMap<OwnedName, String>
attribute_map(attributes) == Range(attributes)

\* Metadata::new with the title check before the unique identifier lookup
Metadata_new_TitleFirst(package_element, uid) ==
  LET sec == find_section(package_element, "metadata")
  IN IF sec = None THEN Err("Metadata element not found.", <<>>)
     ELSE LET children == sec[1].children
              meta == FlatMap(children, MetaElem_try_from)
              identifier == FlatMap(children, Identifier_try_from)
              unique == Find(identifier, LAMBDA id : id.id = Some(uid))
              titles == FlatMap(children, Title_try_from)
              languages == FlatMap(children, Language_try_from)
              optionals == FlatMap(children, OptionalElement_try_from)
          IN IF Len(titles) = 0 THEN Err("Title not found.", <<>>)
             ELSE IF unique = None
             THEN Err("Unique identifier element not found.", <<>>)
             ELSE IF Len(languages) = 0 THEN Err("Language not found.", <<>>)
             ELSE Ok([unique_identifier |-> unique[1],
                      identifier |-> identifier,
                      attributes |-> attribute_map(sec[1].attributes),
                      titles |-> titles, languages |-> languages,
                      optionals |-> optionals, meta |-> meta])

\* Metadata::new without the check of the language list
Metadata_new_NoLanguageCheck(package_element, uid) ==
  LET sec == find_section(package_element, "metadata")
  IN IF sec = None THEN Err("Metadata element not found.", <<>>)
     ELSE LET children == sec[1].children
              meta == FlatMap(children, MetaElem_try_from)
              identifier == FlatMap(children, Identifier_try_from)
              unique == Find(identifier, LAMBDA id : id.id = Some(uid))
              titles == FlatMap(children, Title_try_from)
              languages == FlatMap(children, Language_try_from)
              optionals == FlatMap(children, OptionalElement_try_from)
          IN IF unique = None
             THEN Err("Unique identifier element not found.", <<>>)
             ELSE IF Len(titles) = 0 THEN Err("Title not found.", <<>>)
             ELSE Ok([unique_identifier |-> unique[1],
                      identifier |-> identifier,
                      attributes |-> attribute_map(sec[1].attributes),
                      titles |-> titles, languages |-> languages,
                      optionals |-> optionals, meta |-> meta])

\* Metadata::new
Metadata_new(package_element, uid) ==
  LET sec == find_section(package_element, "metadata")
  IN IF sec = None THEN Err("Metadata element not found.", <<>>)
     ELSE LET children == sec[1].children
              meta == FlatMap(children, MetaElem_try_from)
              identifier == FlatMap(children, Identifier_try_from)
              unique == Find(identifier, LAMBDA id : id.id = Some(uid))
              titles == FlatMap(children, Title_try_from)
              languages == FlatMap(children, Language_try_from)
              optionals == FlatMap(children, OptionalElement_try_from)
          IN IF unique = None
             THEN Err("Unique identifier element not found.", <<>>)
             ELSE IF Len(titles) = 0 THEN Err("Title not found.", <<>>)
             ELSE IF Len(languages) = 0 THEN Err("Language not found.", <<>>)
             ELSE Ok([unique_identifier |-> unique[1],
                      identifier |-> identifier,
                      attributes |-> attribute_map(sec[1].attributes),
                      titles |-> titles, languages |-> languages,
                      optionals |-> optionals, meta |-> meta])

----------------------------------------------------------------------------
(* Spine (mod spine).                                                      *)

\* impl FromStr for PageProgressionDirection; None is Err(())
PageProgressionDirection_from_str(s) ==
  IF s \in {"ltr", "rtl", "default"} THEN Some(s) ELSE None

\* impl FromStr for Linear; None is Err(())
Linear_from_str(s) == IF s \in {"yes", "no"} THEN Some(s) ELSE None

ItemRef_name == OwnedName("itemref", Some(OPF), None)

\* ItemRef_try_from that takes the idref from the id attribute
ItemRef_try_from_ById(value) ==
  IF ~is_element(value, ItemRef_name) THEN None
  ELSE LET attrs == value.attributes
           idref == get_attr(attrs, "id")
           l == get_attr(attrs, "linear")
       IN IF idref = None THEN None
          ELSE Some([id |-> attr_id(attrs), idref |-> idref[1],
                     linear |-> IF l = None THEN None
                                ELSE Linear_from_str(l[1]),
                     properties |-> get_attr(attrs, "properties")])

\* impl TryFrom<&XmlElement> for ItemRef; None is Err(())
ItemRef_try_from(value) ==
  IF ~is_element(value, ItemRef_name) THEN None
  ELSE LET attrs == value.attributes
           idref == get_attr(attrs, "idref")
           l == get_attr(attrs, "linear")
       IN IF idref = None THEN None
          ELSE Some([id |-> attr_id(attrs), idref |-> idref[1],
                     linear |-> IF l = None THEN None
                                ELSE Linear_from_str(l[1]),
                     properties |-> get_attr(attrs, "properties")])

\* the page-progression-direction attribute: the first one that parses
Spine_direction(attributes) ==
  LET parsed(a) == IF a.name.local_name = "page-progression-direction"
                   THEN PageProgressionDirection_from_str(a.value)
                   ELSE None
      hit == Find(attributes, LAMBDA a : parsed(a) # None)
  IN IF hit = None THEN None ELSE parsed(hit[1])

\* Spine::new
Spine_new(package_element) ==
  LET sec == find_section(package_element, "spine")
  IN IF sec = None THEN Err("Spine element not found.", <<>>)
     ELSE Ok([id |-> attr_id(sec[1].attributes),
              page_progression_direction |->
                Spine_direction(sec[1].attributes),
              items |-> FlatMap(sec[1].children, ItemRef_try_from)])

----------------------------------------------------------------------------
(* PackageDocument::new.                                                   *)

\* Xml::get_by: the first node, in document (pre-)order, satisfying P
RECURSIVE get_by_from(_, _, _)
get_by_from(nodes, P(_), i) ==
  IF i > Len(nodes) THEN None
  ELSE IF P(nodes[i]) THEN Some(nodes[i])
  ELSE LET below == get_by_from(nodes[i].children, P, 1)
       IN IF below # None THEN below ELSE get_by_from(nodes, P, i + 1)

get_by(xml, P(_)) == get_by_from(xml, P, 1)

\* the package element of the tree, if there is one
package_of(xml) ==
  get_by(xml, LAMBDA e : e.event = "StartElement"
                         /\ e.name.local_name = "package")

\* HashMap::get with the key OwnedName { local_name, None, None }
attributes_get(attributes, local) ==
  LET hit == Find(attributes,
                  LAMBDA a : a.name = OwnedName(local, None, None))
  IN IF hit = None THEN None ELSE Some(hit[1].value)

----------------------------------------------------------------------------
(* Inputs.                                                                 *)

IdPool == <<"a", "b", "c", "d", "e">>

Ids == {IdPool[i] : i \in 1..MaxIds}

\* an id that no enumerated item has
AbsentId == "zz"

HrefPool == <<"1.xhtml", "2.xhtml", "3.xhtml", "4.xhtml", "5.xhtml">>

\* a core media type
XhtmlString == "application/xhtml+xml"

\* a media type outside the four core families
ForeignString == "foo/bar"

\* an unknown subtype of a core family
WebpString == "image/webp"

NavString == Some("nav")

CoverString == Some("cover-image")

Fallbacks == {None, Some(AbsentId)} \cup {Some(i) : i \in Ids}

OptAttr(key, o) == IF o = None THEN <<>> ELSE <<Attr(key, o[1])>>

\* media-type, fallback and properties attributes of the enumerated items
ItemChoices ==
  [media : {XhtmlString}, fallback : {None},
   props : {None, NavString, CoverString}]
  \cup [media : {XhtmlString}, fallback : {Some(i) : i \in Ids},
        props : {None}]
  \cup [media : {ForeignString}, fallback : Fallbacks,
        props : {None, NavString}]
  \cup [media : {WebpString}, fallback : Fallbacks, props : {None}]
  \cup [media : {WebpString}, fallback : {None}, props : {NavString}]

\* Ids are compared for equality only, so the ids of a list of items are
\* enumerated up to renaming: the n-th item has one of the ids of the items
\* before it or the first unused one
IdChoices(n) ==
  {f \in [1..n -> 1..MaxIds] :
     \A i \in 1..n : \A k \in 1..(f[i] - 1) : \E j \in 1..(i - 1) : f[j] = k}

\* the <item> element written from a choice, its href given by its position
ItemElement(c, id, n) ==
  StartElement(Item_name,
               <<Attr("id", id), Attr("href", HrefPool[n]),
                 Attr("media-type", c.media)>>
                 \o OptAttr("fallback", c.fallback)
                 \o OptAttr("properties", c.props),
               <<>>, "")

ManifestElement(children) ==
  StartElement(OwnedName("manifest", Some(OPF), None), <<>>, children, "")

PackageElement(attributes, children) ==
  StartElement(OwnedName("package", Some(OPF), None), attributes, children, "")

\* the list of <item> elements written from the choices cs with ids f
ItemList(cs, f) == [i \in DOMAIN cs |-> ItemElement(cs[i], IdPool[f[i]], i)]

----------------------------------------------------------------------------
(* Manifest::new called on a package element.                              *)

\* a package whose only section is a manifest of at most MaxItems items
InitManifest ==
  /\ \E n \in 0..MaxItems :
       \E cs \in [1..n -> ItemChoices], f \in IdChoices(n) :
         doc = <<PackageElement(<<>>, <<ManifestElement(ItemList(cs, f))>>)>>
  /\ pc = "Manifest::new"
  /\ run = 1
  /\ unique_identifier = None
  /\ version = None
  /\ meta_data = None
  /\ manifest = None
  /\ spine = None
  /\ ran = <<>>
  /\ results = <<>>
  /\ NoReaderNoTable

ManifestNew ==
  /\ pc = "Manifest::new"
  /\ \E r \in Manifest_new(doc[1]) : manifest' = Some(r)
  /\ pc' = "done"
  /\ ran' = Append(ran, "manifest")
  /\ UNCHANGED <<doc, run, unique_identifier, version, meta_data, spine,
                 results>>
  /\ UNCHANGED <<reader_vars, table_vars, tree_vars>>

NextManifest == ManifestNew

SpecManifest == InitManifest /\ [][NextManifest]_vars

----------------------------------------------------------------------------
(* PackageDocument::new called MaxRuns times on one document.              *)

DcElement(local, attributes, text) ==
  StartElement(OwnedName(local, Some(DC), Some("dc")), attributes, <<>>, text)

\* child lists of the enumerated <metadata> sections: no identifier, the
\* identifier the package names or another one; a title or none; a
\* language or none
MetadataLists ==
  {ids \o titles \o languages :
     ids \in {<<>>, <<DcElement("identifier", <<Attr("id", "id")>>, "X")>>,
              <<DcElement("identifier", <<Attr("id", "other")>>, "Y")>>},
     titles \in {<<>>, <<DcElement("title", <<>>, "T")>>},
     languages \in {<<>>, <<DcElement("language", <<>>, "en")>>}}

\* the enumerated <metadata> sections: none or one
MetadataSections ==
  {<<>>} \cup {<<StartElement(OwnedName("metadata", Some(OPF), None),
                              <<>>, children, "")>> :
                 children \in MetadataLists}

ItemRefElement(idref) ==
  StartElement(ItemRef_name, <<Attr("idref", idref)>>, <<>>, "")

\* the enumerated <spine> sections: none, an empty one, one itemref
SpineSections ==
  {<<>>} \cup {<<StartElement(OwnedName("spine", Some(OPF), None),
                              <<>>, children, "")>> :
                 children \in {<<>>, <<ItemRefElement("a")>>}}

\* attributes of the enumerated <package> elements
PackageAttributes ==
  {u \o v : u \in {<<>>, <<Attr("unique-identifier", "id")>>},
            v \in {<<>>, <<Attr("version", "3.0")>>}}

\* media-type, fallback and properties attributes of the items of the
\* enumerated package documents
PackageItemChoices ==
  [media : {XhtmlString}, fallback : {None},
   props : {NavString, Some("cover-image nav")}]
  \cup [media : {ForeignString}, fallback : {Some("a")}, props : {None}]
  \cup [media : {ForeignString}, fallback : {None, Some(AbsentId)},
        props : {NavString}]

\* a tree without package element
NoPackage == <<StartElement(OwnedName("html", None, None), <<>>, <<>>, "")>>

\* the document of the decoder's reference scenario: one identifier, title
\* and language, one manifest item that is the nav item, one itemref
ConcreteDocument ==
  <<PackageElement(
      <<Attr("unique-identifier", "id"), Attr("version", "3.0")>>,
      <<StartElement(OwnedName("metadata", Some(OPF), None), <<>>,
                     <<DcElement("identifier", <<Attr("id", "id")>>, "X"),
                       DcElement("title", <<>>, "T"),
                       DcElement("language", <<>>, "en")>>, ""),
        ManifestElement(
          <<StartElement(Item_name,
                         <<Attr("id", "nav"), Attr("href", "nav.xhtml"),
                           Attr("media-type", XhtmlString),
                           Attr("properties", "nav")>>, <<>>, "")>>),
        StartElement(OwnedName("spine", Some(OPF), None), <<>>,
                     <<ItemRefElement("nav")>>, "")>>)>>

Init ==
  /\ \/ doc = NoPackage
     \/ doc = ConcreteDocument
     \/ \E attributes \in PackageAttributes, m \in MetadataSections,
           sp \in SpineSections :
          \/ doc = <<PackageElement(attributes, m \o sp)>>
          \/ \E n \in 0..MaxPackageItems :
               \E cs \in [1..n -> PackageItemChoices], f \in IdChoices(n) :
                 doc = <<PackageElement(attributes,
                           m \o <<ManifestElement(ItemList(cs, f))>> \o sp)>>
  /\ pc = "start"
  /\ run = 1
  /\ unique_identifier = None
  /\ version = None
  /\ meta_data = None
  /\ manifest = None
  /\ spine = None
  /\ ran = <<>>
  /\ results = <<>>
  /\ NoReaderNoTable

\* return r from PackageDocument::new
Return(r) ==
  /\ results' = Append(results, r)
  /\ pc' = "done"

\* Locate without the check of the version attribute: an absent version is
\* read as the empty string
Locate_NoVersionCheck ==
  /\ pc = "start"
  /\ LET pkg == package_of(doc)
         uid == IF pkg = None THEN None
                ELSE attributes_get(pkg[1].attributes, "unique-identifier")
         ver == IF pkg = None THEN None
                ELSE attributes_get(pkg[1].attributes, "version")
     IN IF pkg = None
        THEN /\ Return(Err("Package element not found.", <<>>))
             /\ UNCHANGED <<unique_identifier, version>>
        ELSE IF uid = None
        THEN /\ Return(Err("unique-identifier attribute is undefined.", <<>>))
             /\ UNCHANGED <<unique_identifier, version>>
        ELSE /\ unique_identifier' = uid
             /\ version' = IF ver = None THEN Some("") ELSE ver
             /\ pc' = "metadata"
             /\ UNCHANGED results
  /\ UNCHANGED <<doc, run, meta_data, manifest, spine, ran>>
  /\ UNCHANGED <<reader_vars, table_vars, tree_vars>>

\* the package element is looked up and its required attributes are read
Locate ==
  /\ pc = "start"
  /\ LET pkg == package_of(doc)
         uid == IF pkg = None THEN None
                ELSE attributes_get(pkg[1].attributes, "unique-identifier")
         ver == IF pkg = None THEN None
                ELSE attributes_get(pkg[1].attributes, "version")
     IN IF pkg = None
        THEN /\ Return(Err("Package element not found.", <<>>))
             /\ UNCHANGED <<unique_identifier, version>>
        ELSE IF uid = None
        THEN /\ Return(Err("unique-identifier attribute is undefined.", <<>>))
             /\ UNCHANGED <<unique_identifier, version>>
        ELSE IF ver = None
        THEN /\ Return(Err("version attribute is undefined.", <<>>))
             /\ unique_identifier' = uid
             /\ UNCHANGED version
        ELSE /\ unique_identifier' = uid
             /\ version' = ver
             /\ pc' = "metadata"
             /\ UNCHANGED results
  /\ UNCHANGED <<doc, run, meta_data, manifest, spine, ran>>
  /\ UNCHANGED <<reader_vars, table_vars, tree_vars>>

\* DecodeMetadata without the ?: a failure of Metadata::new is not returned
DecodeMetadata_Continue ==
  /\ pc = "metadata"
  /\ meta_data' = Some(Metadata_new(package_of(doc)[1], unique_identifier[1]))
  /\ pc' = "manifest"
  /\ ran' = Append(ran, "metadata")
  /\ UNCHANGED <<doc, run, unique_identifier, version, manifest, spine,
                 results>>
  /\ UNCHANGED <<reader_vars, table_vars, tree_vars>>

\* let meta_data = Metadata::new(package_element, &unique_identifier)?;
DecodeMetadata ==
  /\ pc = "metadata"
  /\ LET r == Metadata_new(package_of(doc)[1], unique_identifier[1])
     IN /\ meta_data' = Some(r)
        /\ IF r.ok THEN pc' = "manifest" /\ UNCHANGED results ELSE Return(r)
  /\ ran' = Append(ran, "metadata")
  /\ UNCHANGED <<doc, run, unique_identifier, version, manifest, spine>>
  /\ UNCHANGED <<reader_vars, table_vars, tree_vars>>

\* let manifest = Manifest::new(package_element)?;
DecodeManifest ==
  /\ pc = "manifest"
  /\ \E r \in Manifest_new(package_of(doc)[1]) :
       /\ manifest' = Some(r)
       /\ IF r.ok THEN pc' = "spine" /\ UNCHANGED results ELSE Return(r)
  /\ ran' = Append(ran, "manifest")
  /\ UNCHANGED <<doc, run, unique_identifier, version, meta_data, spine>>
  /\ UNCHANGED <<reader_vars, table_vars, tree_vars>>

\* let spine = Spine::new(package_element)?; Ok(Self { ... })
DecodeSpine ==
  /\ pc = "spine"
  /\ LET r == Spine_new(package_of(doc)[1])
     IN /\ spine' = Some(r)
        /\ IF r.ok
           THEN Return(Ok([attributes |->
                             attribute_map(package_of(doc)[1].attributes),
                           unique_identifier |-> unique_identifier[1],
                           version |-> version[1],
                           meta_data |-> meta_data[1].val,
                           manifest |-> manifest[1].val,
                           spine |-> r.val]))
           ELSE Return(r)
  /\ ran' = Append(ran, "spine")
  /\ UNCHANGED <<doc, run, unique_identifier, version, meta_data, manifest>>
  /\ UNCHANGED <<reader_vars, table_vars, tree_vars>>

\* PackageDocument::new is called again on the same document
Again ==
  /\ pc = "done"
  /\ run < MaxRuns
  /\ run' = run + 1
  /\ pc' = "start"
  /\ unique_identifier' = None
  /\ version' = None
  /\ meta_data' = None
  /\ manifest' = None
  /\ spine' = None
  /\ ran' = <<>>
  /\ UNCHANGED <<doc, results>>
  /\ UNCHANGED <<reader_vars, table_vars, tree_vars>>

Next == Locate \/ DecodeMetadata \/ DecodeManifest \/ DecodeSpine \/ Again

Spec == Init /\ [][Next]_vars

----------------------------------------------------------------------------
(* The source manifest, as written in the document.                        *)

\* the strings of the core media types (ToString of the core variants)
CoreMediaTypeStrings ==
  {"image/gif", "image/jpeg", "image/png", "image/svg+xml",
   "application/xhtml+xml", "application/vnd.ms-opentype",
   "application/font-woff", "application/smil+xml", "application/pls+xml",
   "audio/mpeg", "audio/mp4", "text/css", "text/javascript"}

\* the <item> children of the document's manifest, in document order
SourceItems ==
  LET pkg == package_of(doc)
      sec == IF pkg = None THEN None ELSE find_section(pkg[1], "manifest")
  IN IF sec = None THEN <<>>
     ELSE FlatMap(sec[1].children,
                  LAMBDA e : IF e.event = "StartElement"
                                /\ e.name.local_name = "item"
                             THEN <<e>> ELSE <<>>)

SourceId(e) == get_attr(e.attributes, "id")

SourceFallback(e) == get_attr(e.attributes, "fallback")

\* the item element's media type is a core type
SourceIsCore(e) ==
  LET m == get_attr(e.attributes, "media-type")
  IN m # None /\ m[1] \in CoreMediaTypeStrings

\* the item element's properties attribute has the token
SourceCarries(e, token) ==
  LET p == get_attr(e.attributes, "properties")
  IN p # None /\ Contains(split_whitespace(p[1]), token)

\* the fallback of the non-core item element d names the item element e
SourceEdge(d, e) ==
  ~SourceIsCore(d) /\ SourceFallback(d) # None /\ SourceFallback(d) = SourceId(e)

\* the walks of k fallback steps through the item elements
SourceWalks(k) ==
  {w \in [1..(k + 1) -> Range(SourceItems)] :
     \A i \in 1..k : SourceEdge(w[i], w[i + 1])}

\* some fallback walk from a non-core item element comes back to it
SourceHasCycle ==
  \E k \in 1..Len(SourceItems) :
    \E w \in SourceWalks(k) : w[1] = w[k + 1]

\* the fallback walk from item element e ends at a core item element
\* without repeating an id
SourceResolves(e) ==
  \E k \in 0..Len(SourceItems) :
    \E w \in SourceWalks(k) :
      /\ w[1] = e
      /\ SourceIsCore(w[k + 1])
      /\ \A i, j \in 1..(k + 1) : i # j => SourceId(w[i]) # SourceId(w[j])

\* a fallback walk reaches an id that no item element has, or a non-core
\* item element that has no fallback
SourceDangles ==
  \E k \in 0..Len(SourceItems) :
    \E w \in SourceWalks(k) :
      /\ ~SourceIsCore(w[k + 1])
      /\ \A e \in Range(SourceItems) : SourceFallback(w[k + 1]) # SourceId(e)

SourceIdsUnique ==
  \A i, j \in DOMAIN SourceItems :
    i # j => SourceId(SourceItems[i]) # SourceId(SourceItems[j])

\* Manifest::new has returned
ManifestDone == pc = "done" /\ manifest # None

ManifestOk == ManifestDone /\ manifest[1].ok

----------------------------------------------------------------------------
(* Claims about Manifest::new, checked under SpecManifest.                  *)

\* C2: a manifest in which the fallback walk from some non-core item
\* revisits an id (a self reference, A -> B -> A, a longer cycle of
\* non-core items) is never accepted by Manifest::new.  Stated for the
\* manifests whose item ids are unique.
C2_CycleRejected ==
  (ManifestDone /\ SourceIdsUnique /\ SourceHasCycle) => ~manifest[1].ok

\* C3: Manifest::new succeeds for every manifest with unique item ids and
\* an item carrying nav in which the fallback chain of every non-core item
\* is finite, acyclic, refers to present ids only and ends at a core item.
C3_ValidAccepted ==
  (/\ ManifestDone
   /\ SourceIdsUnique
   /\ \E e \in Range(SourceItems) : SourceCarries(e, "nav")
   /\ \A e \in Range(SourceItems) : SourceResolves(e))
  => manifest[1].ok

\* C4: a manifest in which a fallback walk of a non-core item reaches a
\* fallback id that no item has, or in which a non-core item has no
\* fallback, is never accepted by Manifest::new.  Stated for the manifests
\* whose item ids are unique.
C4_DanglingRejected ==
  (ManifestDone /\ SourceIdsUnique /\ SourceDangles) => ~manifest[1].ok

\* the fallback walk from item i of a decoded manifest ends at a core item
\* without visiting an id twice
DecodedResolves(i, items) ==
  \E k \in 0..Cardinality(items) :
    \E w \in [1..(k + 1) -> items] :
      /\ w[1] = i
      /\ \A n \in 1..k : /\ ~is_core_media_type(w[n].media_type)
                         /\ w[n].fallback = Some(w[n + 1].id)
      /\ is_core_media_type(w[k + 1].media_type)
      /\ \A m, n \in 1..(k + 1) : m # n => w[m].id # w[n].id

\* C5: in every decoded Manifest the fallback walk of every item of the
\* item collection reaches a core item without visiting an id twice, also
\* when item elements of the source share an id.
C5_DecodedItemsResolve ==
  ManifestOk =>
    \A i \in manifest[1].val.items : DecodedResolves(i, manifest[1].val.items)

\* C6: no decoded Manifest contains two items with the same id (two item
\* elements with the same id make Manifest::new fail).
C6_DecodedIdsUnique ==
  ManifestOk =>
    \A i, j \in manifest[1].val.items : i.id = j.id => i = j

\* the Item that an item element of the enumerated documents is written for
SourceItem(e) ==
  [fallback |-> SourceFallback(e),
   href |-> get_attr(e.attributes, "href")[1],
   id |-> SourceId(e)[1],
   media_overlay |-> get_attr(e.attributes, "media-overlay"),
   media_type |-> Item_media_type(e.attributes)[1],
   properties |-> Item_properties(e.attributes)]

\* the item elements carrying the token, as positions of SourceItems
SourceCarriers(token) ==
  {n \in DOMAIN SourceItems : SourceCarries(SourceItems[n], token)}

\* C7: with no item carrying nav, Manifest::new fails with the
\* navigation-item-not-found error; with exactly one item carrying nav, the
\* nav of the decoded Manifest is value-equal to that item.
C7_NavItem ==
  ManifestDone =>
    /\ SourceCarriers("nav") = {} =>
         manifest[1] = Err("Navigation item not found in <manifest>", <<>>)
    /\ (manifest[1].ok /\ Cardinality(SourceCarriers("nav")) = 1) =>
         \A n \in SourceCarriers("nav") :
           manifest[1].val.nav = SourceItem(SourceItems[n])

\* C7 witness: a manifest of several items, exactly one of them carrying
\* nav and not the first one, has been decoded
C7_Witness ==
  /\ ManifestOk
  /\ Len(SourceItems) >= 2
  /\ Cardinality(SourceCarriers("nav")) = 1
  /\ 1 \notin SourceCarriers("nav")
  /\ manifest[1].val.nav.id = SourceId(SourceItems[Len(SourceItems)])[1]

\* C8: every decoded Manifest has exactly one item carrying nav: a source
\* manifest with no or with several such items is not decoded.  Stated for
\* the manifests whose item ids are unique.
C8_ExactlyOneNav ==
  (ManifestOk /\ SourceIdsUnique) => Cardinality(SourceCarriers("nav")) = 1

\* C9: the cover image of a decoded Manifest is the first item, in document
\* order, carrying cover-image, and none exactly if no item carries it.
\* Stated for the manifests whose item ids are unique.
C9_FirstCoverImage ==
  (ManifestOk /\ SourceIdsUnique) =>
    LET covers == SourceCarriers("cover-image")
    IN IF covers = {} THEN manifest[1].val.cover_image = None
       ELSE \E n \in covers :
              /\ \A m \in covers : n <= m
              /\ manifest[1].val.cover_image = Some(SourceItem(SourceItems[n]))

----------------------------------------------------------------------------
(* Claims about PackageDocument::new, checked under Spec.                   *)

\* the run of PackageDocument::new has returned after it read the package
\* element's attributes
Decoded == pc = "done" /\ ran # <<>>

\* what the last finished run returned
Returned == results[Len(results)]

\* the PackageDocument built from the three decoded sections
PackageDocumentOf(m, mf, s) ==
  Ok([attributes |-> attribute_map(package_of(doc)[1].attributes),
      unique_identifier |-> unique_identifier[1], version |-> version[1],
      meta_data |-> m.val, manifest |-> mf.val, spine |-> s.val])

\* C1: the decoders run in the order metadata, manifest, spine; the first
\* that fails ends the run, its error is returned unchanged and the later
\* decoders are not run; a PackageDocument is returned only when all three
\* succeed, and it is built from their three results.
C1_FailFast ==
  Decoded =>
    LET pe == package_of(doc)[1]
        m == Metadata_new(pe, unique_identifier[1])
        s == Spine_new(pe)
    IN /\ ~m.ok =>
            /\ Returned = m
            /\ ran = <<"metadata">>
            /\ manifest = None /\ spine = None
       /\ m.ok =>
            /\ manifest # None /\ manifest[1] \in Manifest_new(pe)
            /\ ~manifest[1].ok =>
                 /\ Returned = manifest[1]
                 /\ ran = <<"metadata", "manifest">>
                 /\ spine = None
            /\ (manifest[1].ok /\ ~s.ok) =>
                 /\ Returned = s
                 /\ ran = <<"metadata", "manifest", "spine">>
            /\ (manifest[1].ok /\ s.ok) =>
                 /\ Returned = PackageDocumentOf(m, manifest[1], s)
                 /\ ran = <<"metadata", "manifest", "spine">>

\* C1 witness: the metadata, the manifest and the spine of the document are
\* all invalid, and the run has returned the metadata error
C1_Witness ==
  /\ Decoded
  /\ ~Metadata_new(package_of(doc)[1], unique_identifier[1]).ok
  /\ \A r \in Manifest_new(package_of(doc)[1]) : ~r.ok
  /\ ~Spine_new(package_of(doc)[1]).ok
  /\ find_section(package_of(doc)[1], "metadata") # None
  /\ Returned = Metadata_new(package_of(doc)[1], unique_identifier[1])

\* C10: two runs of PackageDocument::new on the same document return
\* value-equal results or the same failure.
C10_Deterministic == Len(results) >= 2 => results[1] = results[2]

----------------------------------------------------------------------------
(* Metadata::new called on a package element.                              *)

\* longest list of children of the <metadata> section in the inputs of
\* Metadata::new
MaxMetadataChildren == 4

\* the value of the package's unique-identifier attribute
PackageUid == "id"

\* a <meta> child of the metadata section
MetaElement(ns, attributes, text) ==
  StartElement(OwnedName("meta", Some(ns), None), attributes, <<>>, text)

\* the children the enumerated <metadata> sections are written from:
\* identifiers with the id the package names (two texts), with another id
\* and without id; two titles; two languages; a descriptive element; meta
\* elements that parse and that do not
MetadataChildChoices ==
  {DcElement("identifier", <<Attr("id", PackageUid)>>, "X"),
   DcElement("identifier", <<Attr("id", PackageUid)>>, "Y"),
   DcElement("identifier", <<Attr("id", "other")>>, "Z"),
   DcElement("identifier", <<>>, "W"),
   DcElement("title", <<>>, "T"),
   DcElement("title", <<Attr("dir", "rtl")>>, "T2"),
   DcElement("language", <<>>, "en"),
   DcElement("language", <<Attr("id", "l2")>>, "ja"),
   DcElement("creator", <<>>, "A"),
   MetaElement(DC, <<Attr("property", "role")>>, "aut"),
   MetaElement(OPF, <<Attr("property", "role"), Attr("refines", "#c")>>, "aut"),
   MetaElement(DC, <<Attr("property", "bogus")>>, "v"),
   MetaElement(DC, <<Attr("id", PackageUid)>>, "v")}

MetadataElement(children) ==
  StartElement(OwnedName("metadata", Some(OPF), None), <<>>, children, "")

\* a package without metadata section, or whose only section is a metadata
\* section of at most MaxMetadataChildren children
InitMetadata ==
  /\ \/ doc = <<PackageElement(<<>>, <<>>)>>
     \/ \E n \in 0..MaxMetadataChildren :
          \E children \in [1..n -> MetadataChildChoices] :
            doc = <<PackageElement(<<>>, <<MetadataElement(children)>>)>>
  /\ pc = "Metadata::new"
  /\ run = 1
  /\ unique_identifier = Some(PackageUid)
  /\ version = None
  /\ meta_data = None
  /\ manifest = None
  /\ spine = None
  /\ ran = <<>>
  /\ results = <<>>
  /\ NoReaderNoTable

MetadataNew ==
  /\ pc = "Metadata::new"
  /\ meta_data' = Some(Metadata_new(doc[1], unique_identifier[1]))
  /\ pc' = "done"
  /\ ran' = Append(ran, "metadata")
  /\ UNCHANGED <<doc, run, unique_identifier, version, manifest, spine,
                 results>>
  /\ UNCHANGED <<reader_vars, table_vars, tree_vars>>

NextMetadata == MetadataNew

SpecMetadata == InitMetadata /\ [][NextMetadata]_vars

----------------------------------------------------------------------------
(* The source metadata section, as written in the document.                *)

\* the children of the document's metadata section, in document order
SourceMetadataChildren ==
  LET pkg == package_of(doc)
      sec == IF pkg = None THEN None ELSE find_section(pkg[1], "metadata")
  IN IF sec = None THEN <<>> ELSE sec[1].children

HasMetadataSection ==
  package_of(doc) # None /\ find_section(package_of(doc)[1], "metadata") # None

\* the child e is the Dublin Core element dc:<local>
IsDc(e, local) ==
  /\ e.event = "StartElement"
  /\ e.name.local_name = local
  /\ e.name.namespace = Some(DC)
  /\ e.name.prefix = Some("dc")

\* the dc:<local> children of the metadata section, in document order
SourceDc(local) ==
  FlatMap(SourceMetadataChildren,
          LAMBDA e : IF IsDc(e, local) THEN <<e>> ELSE <<>>)

\* the positions, among the dc:identifier children, of those whose id
\* attribute is the package's unique-identifier value
SourceUniqueMatches ==
  {i \in DOMAIN SourceDc("identifier") :
     get_attr(SourceDc("identifier")[i].attributes, "id")
       = Some(unique_identifier[1])}

\* Metadata::new has returned
MetadataDone == pc = "done" /\ meta_data # None /\ manifest = None

MetadataOk == MetadataDone /\ meta_data[1].ok

UniqueIdentifierError == Err("Unique identifier element not found.", <<>>)

TitleError == Err("Title not found.", <<>>)

----------------------------------------------------------------------------
(* Claims about Metadata::new, checked under SpecMetadata.                  *)

\* C11: when some dc:identifier child of the metadata section has an id
\* equal to the package's unique-identifier value, Metadata::new does not
\* fail with the unresolved-unique-identifier error and a decoded Metadata
\* has as unique identifier the id and text of the first such child in
\* document order; when no identifier child has that id, Metadata::new
\* fails with the unresolved-unique-identifier error.
C11_UniqueIdentifier ==
  (MetadataDone /\ HasMetadataSection) =>
    IF SourceUniqueMatches = {}
    THEN meta_data[1] = UniqueIdentifierError
    ELSE /\ meta_data[1] # UniqueIdentifierError
         /\ meta_data[1].ok =>
              \E i \in SourceUniqueMatches :
                /\ \A j \in SourceUniqueMatches : i <= j
                /\ meta_data[1].val.unique_identifier =
                     [id |-> Some(unique_identifier[1]),
                      identifier |-> SourceDc("identifier")[i].text]

\* C11 witness: a Metadata has been decoded from a section with two
\* identifiers of the package's id, the one with text "Y" written before
\* the one with text "X"
C11_Witness ==
  /\ MetadataOk
  /\ SourceUniqueMatches = {1, 2}
  /\ SourceDc("identifier")[1].text = "Y"
  /\ SourceDc("identifier")[2].text = "X"
  /\ meta_data[1].val.unique_identifier.identifier = "Y"

\* C12 as stated: Metadata::new fails with the missing-title error for
\* every metadata section without dc:title child, whatever its other
\* children are.
C12_NoTitleIsTitleError ==
  (MetadataDone /\ HasMetadataSection /\ SourceDc("title") = <<>>) =>
    meta_data[1] = TitleError

\* C12, amended: Metadata::new fails for every metadata section without
\* dc:title child; the failure is the missing-title error when some
\* identifier child has the package's unique-identifier value as id, and
\* the unresolved-unique-identifier error otherwise (the identifier is
\* looked up before the titles are collected).
C12_NoTitleFails ==
  (MetadataDone /\ HasMetadataSection /\ SourceDc("title") = <<>>) =>
    meta_data[1] = IF SourceUniqueMatches = {} THEN UniqueIdentifierError
                   ELSE TitleError

\* C12 witness: a section with the package's identifier, a language, a
\* descriptive element and a meta element, and no title, has been rejected
\* with the missing-title error
C12_Witness ==
  /\ MetadataDone
  /\ SourceDc("title") = <<>>
  /\ SourceUniqueMatches # {}
  /\ SourceDc("language") # <<>>
  /\ SourceDc("creator") # <<>>
  /\ \E i \in DOMAIN SourceMetadataChildren :
       SourceMetadataChildren[i].name.local_name = "meta"
  /\ meta_data[1] = TitleError

\* C13: every decoded Metadata has at least one title and at least one
\* language, its titles and its languages are those of the dc:title and
\* dc:language children in document order, and its unique identifier is an
\* entry of its identifier list whose id is the package's unique-identifier
\* value.
C13_MetadataInvariant ==
  MetadataOk =>
    LET m == meta_data[1].val
    IN /\ Len(m.titles) >= 1
       /\ Len(m.languages) >= 1
       /\ Len(m.titles) = Len(SourceDc("title"))
       /\ \A i \in DOMAIN m.titles :
            m.titles[i].title = SourceDc("title")[i].text
       /\ Len(m.languages) = Len(SourceDc("language"))
       /\ \A i \in DOMAIN m.languages :
            m.languages[i].language = SourceDc("language")[i].text
       /\ m.unique_identifier \in Range(m.identifier)
       /\ m.unique_identifier.id = Some(unique_identifier[1])

\* C13 witness: a Metadata with two different titles, the later written
\* first, has been decoded
C13_Witness ==
  /\ MetadataOk
  /\ Len(meta_data[1].val.titles) = 2
  /\ meta_data[1].val.titles[1].title = "T2"
  /\ meta_data[1].val.titles[2].title = "T"
  /\ Len(meta_data[1].val.identifier) = 1

\* the child e of the metadata section is a <meta> element
IsMeta(e) == e.event = "StartElement" /\ e.name.local_name = "meta"

\* the <meta> child e is in the namespace the decoder looks for and has a
\* property attribute naming a defined property
SourceMetaParses(e) ==
  /\ IsMeta(e)
  /\ e.name.namespace = Some(DC)
  /\ e.name.prefix = None
  /\ get_attr(e.attributes, "property") # None
  /\ MetaDataProperty_from_str(get_attr(e.attributes, "property")[1]) # None

\* the package element of the document with the <meta> children of its
\* metadata section removed
WithoutMeta ==
  LET pkg == package_of(doc)[1]
      strip(sec) ==
        IF sec.event = "StartElement" /\ sec.name.local_name = "metadata"
        THEN [sec EXCEPT !.children =
                FlatMap(sec.children,
                        LAMBDA e : IF IsMeta(e) THEN <<>> ELSE <<e>>)]
        ELSE sec
  IN [pkg EXCEPT !.children = [i \in DOMAIN pkg.children |->
                                 strip(pkg.children[i])]]

\* what a result of Metadata::new says apart from its meta list
ApartFromMeta(r) ==
  IF r.ok
  THEN [ok |-> TRUE, unique_identifier |-> r.val.unique_identifier,
        identifier |-> r.val.identifier, titles |-> r.val.titles,
        languages |-> r.val.languages, optionals |-> r.val.optionals]
  ELSE r

\* C20: the result of Metadata::new, apart from the meta list, is the one
\* it has for the same section without its <meta> children: success or the
\* failure, the identifiers, the unique identifier, the titles, the
\* languages and the descriptive entries do not depend on the meta
\* children; the meta list has one entry for each meta child that parses
\* and none for the others.
C20_MetaNeverFails ==
  MetadataDone =>
    /\ ApartFromMeta(meta_data[1]) =
         ApartFromMeta(Metadata_new(WithoutMeta, unique_identifier[1]))
    /\ meta_data[1].ok =>
         Len(meta_data[1].val.meta) =
           Cardinality({i \in DOMAIN SourceMetadataChildren :
                          SourceMetaParses(SourceMetadataChildren[i])})

\* C20 witness: a Metadata has been decoded from a section whose first
\* child is a meta element that does not parse
C20_Witness ==
  /\ MetadataOk
  /\ IsMeta(SourceMetadataChildren[1])
  /\ MetaElem_try_from(SourceMetadataChildren[1]) = None

----------------------------------------------------------------------------
(* Manifest::new called on manifests whose items lack attributes.          *)

\* longest list of <item> children in the inputs of Manifest::new whose
\* items may lack attributes
MaxBareItems == 3

\* a media-type string without '/'
SlashlessString == "xhtml"

\* which of id and href the enumerated items have, their media-type (absent,
\* core, outside the core families, unknown subtype of a core family,
\* without '/'), their fallback (none or the id of the first item) and
\* their properties
BareItemChoices ==
  [id : {TRUE}, href : {TRUE}, media : {Some(XhtmlString)},
   fallback : {None}, props : {None, NavString}]
  \cup [id : BOOLEAN, href : BOOLEAN, media : {Some(XhtmlString)},
        fallback : {None}, props : {None}]
  \cup [id : {FALSE}, href : {TRUE}, media : {Some(XhtmlString)},
        fallback : {None}, props : {NavString}]
  \cup [id : {TRUE}, href : {TRUE},
        media : {None, Some(ForeignString), Some(WebpString),
                 Some(SlashlessString)},
        fallback : {None, Some(IdPool[1])}, props : {None}]
  \cup [id : {TRUE}, href : {FALSE}, media : {Some(ForeignString)},
        fallback : {None}, props : {None}]

\* the <item> element written from a choice, its id and href given by its
\* position
BareItemElement(c, n) ==
  StartElement(Item_name,
               (IF c.id THEN <<Attr("id", IdPool[n])>> ELSE <<>>)
                 \o (IF c.href THEN <<Attr("href", HrefPool[n])>> ELSE <<>>)
                 \o OptAttr("media-type", c.media)
                 \o OptAttr("fallback", c.fallback)
                 \o OptAttr("properties", c.props),
               <<>>, "")

\* a package whose only section is a manifest of at most MaxBareItems
\* items
InitItems ==
  /\ \E n \in 0..MaxBareItems :
       \E cs \in [1..n -> BareItemChoices] :
         doc = <<PackageElement(<<>>,
                   <<ManifestElement([i \in 1..n |->
                                        BareItemElement(cs[i], i)])>>)>>
  /\ pc = "Manifest::new"
  /\ run = 1
  /\ unique_identifier = None
  /\ version = None
  /\ meta_data = None
  /\ manifest = None
  /\ spine = None
  /\ ran = <<>>
  /\ results = <<>>
  /\ NoReaderNoTable

NextItems == ManifestNew

SpecItems == InitItems /\ [][NextItems]_vars

\* the item element has both required attributes
SourceComplete(e) ==
  SourceId(e) # None /\ get_attr(e.attributes, "href") # None

\* C14: Manifest::new fails whenever some item child of the manifest lacks
\* the id attribute or the href attribute.
C14_IncompleteItemRejected ==
  (ManifestDone /\ \E e \in Range(SourceItems) : ~SourceComplete(e)) =>
    ~manifest[1].ok

\* C15: every item element with id and href whose media-type attribute is
\* absent or is not a core type is an item of the decoded Manifest, with
\* the non-core media type variant: it is not dropped.
C15_UnrecognizedKept ==
  ManifestOk =>
    \A e \in Range(SourceItems) :
      (SourceComplete(e) /\ ~SourceIsCore(e)) =>
        \E i \in manifest[1].val.items :
          /\ i.id = SourceId(e)[1]
          /\ i.href = get_attr(e.attributes, "href")[1]
          /\ i.media_type.variant = "NonCoreMediaType"

----------------------------------------------------------------------------
(* Spine::new called on a package element.                                 *)

\* longest list of <itemref> children in the inputs of Spine::new
MaxItemRefs == 4

\* the attributes of the enumerated <itemref> elements: an idref naming the
\* manifest item, another idref, no idref; no linear attribute, yes, no
\* and an undefined value; id and properties
ItemRefChoices ==
  {<<Attr("idref", "a")>>,
   <<Attr("idref", AbsentId)>>,
   <<Attr("idref", "a"), Attr("linear", "yes")>>,
   <<Attr("idref", "a"), Attr("linear", "no")>>,
   <<Attr("idref", AbsentId), Attr("linear", "maybe")>>,
   <<Attr("id", "r"), Attr("idref", "a"), Attr("properties", "page-spread-left")>>,
   <<Attr("id", "r")>>,
   <<Attr("linear", "no")>>}

\* attributes of the enumerated <spine> elements
SpineAttributeChoices ==
  {<<>>, <<Attr("id", "s"), Attr("page-progression-direction", "rtl")>>}

SpineElement(attributes, children) ==
  StartElement(OwnedName("spine", Some(OPF), None), attributes, children, "")

\* the manifest of the packages given to Spine::new: one item, with id a
SpineManifest ==
  ManifestElement(<<ItemElement([media |-> XhtmlString, fallback |-> None,
                                 props |-> NavString], "a", 1)>>)

\* a package without spine section, or with a spine of at most MaxItemRefs
\* itemref children
InitSpine ==
  /\ \/ doc = <<PackageElement(<<>>, <<SpineManifest>>)>>
     \/ \E n \in 0..MaxItemRefs, attributes \in SpineAttributeChoices :
          \E cs \in [1..n -> ItemRefChoices] :
            doc = <<PackageElement(<<>>,
                      <<SpineManifest,
                        SpineElement(attributes,
                          [i \in 1..n |->
                             StartElement(ItemRef_name, cs[i], <<>>, "")])>>)>>
  /\ pc = "Spine::new"
  /\ run = 1
  /\ unique_identifier = None
  /\ version = None
  /\ meta_data = None
  /\ manifest = None
  /\ spine = None
  /\ ran = <<>>
  /\ results = <<>>
  /\ NoReaderNoTable

SpineNew ==
  /\ pc = "Spine::new"
  /\ spine' = Some(Spine_new(doc[1]))
  /\ pc' = "done"
  /\ ran' = Append(ran, "spine")
  /\ UNCHANGED <<doc, run, unique_identifier, version, meta_data, manifest,
                 results>>
  /\ UNCHANGED <<reader_vars, table_vars, tree_vars>>

NextSpine == SpineNew

SpecSpine == InitSpine /\ [][NextSpine]_vars

\* the <itemref> children of the document's spine, in document order
SourceItemRefs ==
  LET pkg == package_of(doc)
      sec == IF pkg = None THEN None ELSE find_section(pkg[1], "spine")
  IN IF sec = None THEN <<>>
     ELSE FlatMap(sec[1].children,
                  LAMBDA e : IF e.event = "StartElement"
                                /\ e.name.local_name = "itemref"
                             THEN <<e>> ELSE <<>>)

\* Spine::new has returned
SpineDone == pc = "done" /\ spine # None /\ meta_data = None

SpineOk == SpineDone /\ spine[1].ok

\* every itemref child has the idref attribute
SourceIdrefsPresent ==
  \A e \in Range(SourceItemRefs) : get_attr(e.attributes, "idref") # None

\* C16: the items of a decoded Spine are the itemref children of the spine
\* in document order: as many, the i-th item having the idref and the id of
\* the i-th itemref child, repeated idrefs and idrefs naming no manifest
\* item included.
C16_SpineOrder ==
  SpineOk =>
    /\ Len(spine[1].val.items) = Len(SourceItemRefs)
    /\ \A i \in DOMAIN spine[1].val.items :
         /\ Some(spine[1].val.items[i].idref) =
              get_attr(SourceItemRefs[i].attributes, "idref")
         /\ spine[1].val.items[i].id =
              get_attr(SourceItemRefs[i].attributes, "id")

\* C17: an item of a decoded Spine whose itemref has no linear attribute
\* has the linear value yes, as an item whose itemref says linear="yes".
\* Stated for the spines whose itemrefs all have an idref, where the i-th
\* item is decoded from the i-th itemref.
C17_LinearDefault ==
  (SpineOk /\ SourceIdrefsPresent) =>
    \A i \in DOMAIN SourceItemRefs :
      get_attr(SourceItemRefs[i].attributes, "linear") = None =>
        spine[1].val.items[i].linear = Some("yes")

\* C18: Spine::new fails whenever some itemref child of the spine lacks the
\* idref attribute.
C18_MissingIdrefRejected ==
  (SpineDone /\ ~SourceIdrefsPresent) => ~spine[1].ok

----------------------------------------------------------------------------
(* Claims about the package element, checked under Spec.                   *)

\* the current run of PackageDocument::new has returned
RunReturned == pc = "done" /\ Len(results) = run

\* the value of the attribute of the document's package element
SourcePackageAttribute(local) ==
  IF package_of(doc) = None THEN None
  ELSE get_attr(package_of(doc)[1].attributes, local)

\* C19: PackageDocument::new returns the package-element-not-found error
\* for a tree without package element, the unique-identifier error for a
\* package element without that attribute and the version error for one
\* without version attribute, in each case without having run a section
\* decoder; a PackageDocument decoded from a package element with both
\* attributes has their values as unique_identifier and version.
C19_PackageAttributes ==
  RunReturned =>
    IF package_of(doc) = None
    THEN Returned = Err("Package element not found.", <<>>) /\ ran = <<>>
    ELSE IF SourcePackageAttribute("unique-identifier") = None
    THEN /\ Returned = Err("unique-identifier attribute is undefined.", <<>>)
         /\ ran = <<>>
    ELSE IF SourcePackageAttribute("version") = None
    THEN Returned = Err("version attribute is undefined.", <<>>) /\ ran = <<>>
    ELSE /\ ran # <<>>
         /\ Returned.ok =>
              /\ Some(Returned.val.unique_identifier) =
                   SourcePackageAttribute("unique-identifier")
              /\ Some(Returned.val.version) = SourcePackageAttribute("version")

\* C19 witness: a package element with unique-identifier and without
\* version, whose metadata, manifest and spine are all valid, has been
\* rejected with the version error
C19_Witness ==
  /\ RunReturned
  /\ package_of(doc) # None
  /\ SourcePackageAttribute("unique-identifier") # None
  /\ SourcePackageAttribute("version") = None
  /\ Metadata_new(package_of(doc)[1], PackageUid).ok
  /\ \A r \in Manifest_new(package_of(doc)[1]) : r.ok
  /\ Spine_new(package_of(doc)[1]).ok
  /\ Returned = Err("version attribute is undefined.", <<>>)

----------------------------------------------------------------------------
(* Metadata::new called on sections with descriptive elements.             *)

\* longest list of children written after the required ones in the inputs
\* of Metadata::new with descriptive elements
MaxDescriptive == 4

\* the namespace the prefix xml is bound to
XMLNS == "http://www.w3.org/XML/1998/namespace"

\* the attribute xml:lang
XmlLangAttr(value) ==
  [name |-> OwnedName("lang", Some(XMLNS), Some("xml")), value |-> value]

\* the children written after the required ones: descriptive elements of
\* several kinds, with and without dir, id and xml:lang, with an undefined
\* dir and with a lang attribute that is not xml:lang; a Dublin Core
\* element of no descriptive kind; an element named creator outside the
\* Dublin Core namespace; a second title; a meta element
DescriptiveChoices ==
  {DcElement("creator", <<>>, "A"),
   DcElement("creator", <<Attr("id", "c1")>>, "B"),
   DcElement("subject",
             <<Attr("dir", "rtl"), Attr("id", "s"), XmlLangAttr("ja")>>, "S"),
   DcElement("type", <<>>, "t"),
   DcElement("date", <<Attr("dir", "up"), Attr("lang", "xx")>>, "2020"),
   DcElement("foo", <<>>, "F"),
   StartElement(OwnedName("creator", Some(OPF), None), <<>>, <<>>, "C"),
   DcElement("title", <<>>, "T2"),
   MetaElement(OPF, <<Attr("property", "role")>>, "aut")}

\* the children every enumerated section starts with
RequiredChildren ==
  <<DcElement("identifier", <<Attr("id", PackageUid)>>, "X"),
    DcElement("title", <<>>, "T"),
    DcElement("language", <<>>, "en")>>

\* a package whose metadata section has the required children (or, once,
\* none of them) and at most MaxDescriptive further children
InitDescriptive ==
  /\ \E n \in 0..MaxDescriptive :
       \E rest \in [1..n -> DescriptiveChoices] :
         \/ doc = <<PackageElement(<<>>,
                      <<MetadataElement(RequiredChildren \o rest)>>)>>
         \/ /\ n = 1
            /\ doc = <<PackageElement(<<>>, <<MetadataElement(rest)>>)>>
  /\ pc = "Metadata::new"
  /\ run = 1
  /\ unique_identifier = Some(PackageUid)
  /\ version = None
  /\ meta_data = None
  /\ manifest = None
  /\ spine = None
  /\ ran = <<>>
  /\ results = <<>>
  /\ NoReaderNoTable

NextDescriptive == MetadataNew

SpecDescriptive == InitDescriptive /\ [][NextDescriptive]_vars

\* the kinds of descriptive elements
DescriptiveKinds ==
  {"contributor", "coverage", "creator", "date", "description", "format",
   "publisher", "relation", "rights", "source", "subject", "type"}

\* the children of the metadata section that are Dublin Core elements of a
\* descriptive kind, in document order
SourceDescriptive ==
  FlatMap(SourceMetadataChildren,
          LAMBDA e : IF \E k \in DescriptiveKinds : IsDc(e, k)
                     THEN <<e>> ELSE <<>>)

\* the value of the attribute xml:lang of the element
SourceXmlLang(e) ==
  LET at == {i \in DOMAIN e.attributes :
               /\ e.attributes[i].name.local_name = "lang"
               /\ e.attributes[i].name.prefix = Some("xml")}
  IN IF at = {} THEN None
     ELSE Some(e.attributes[CHOOSE i \in at : \A j \in at : i <= j].value)

\* the value of the attribute dir of the element, when it is ltr or rtl
SourceDir(e) ==
  LET d == get_attr(e.attributes, "dir")
  IN IF d # None /\ d[1] \in {"ltr", "rtl"} THEN d ELSE None

----------------------------------------------------------------------------
(* The string tables: to_string followed by from_str.                      *)

ImageType_to_string(t) ==
  CASE t = "GIF" -> "gif"
    [] t = "JPEG" -> "jpeg"
    [] t = "PNG" -> "png"
    [] t = "SVG" -> "svg+xml"

ApplicationType_to_string(t) ==
  CASE t = "XhtmlXml" -> "xhtml+xml"
    [] t = "OpenType" -> "vnd.ms-opentype"
    [] t = "WOFF" -> "font-woff"
    [] t = "MediaOverlays" -> "smil+xml"
    [] t = "PLS" -> "pls+xml"

AudioType_to_string(t) ==
  CASE t = "MPEG" -> "mpeg"
    [] t = "MP4" -> "mp4"

TextType_to_string(t) ==
  CASE t = "CSS" -> "css"
    [] t = "JS" -> "javascript"

\* impl ToString for MediaType
MediaType_to_string(m) ==
  CASE m.variant = "Image" -> "image/" \o ImageType_to_string(m.detail)
    [] m.variant = "Application" ->
         "application/" \o ApplicationType_to_string(m.detail)
    [] m.variant = "Audio" -> "audio/" \o AudioType_to_string(m.detail)
    [] m.variant = "Text" -> "text/" \o TextType_to_string(m.detail)
    [] m.variant = "NonCoreMediaType" -> m.detail

\* impl ToString for ManifestItemProperty
ManifestItemProperty_to_string(p) ==
  CASE p = "cover_image" -> "cover-image"
    [] p = "remote_resources" -> "remote-resources"
    [] OTHER -> p

\* enum ManifestItemProperty
ManifestItemProperties ==
  {"cover_image", "mathml", "nav", "remote_resources", "scripted", "svg",
   "switch"}

\* the core values of enum MediaType
CoreMediaTypes ==
  {Core("Image", t) : t \in {"GIF", "JPEG", "PNG", "SVG"}}
  \cup {Core("Application", t) :
          t \in {"XhtmlXml", "OpenType", "WOFF", "MediaOverlays", "PLS"}}
  \cup {Core("Audio", t) : t \in {"MPEG", "MP4"}}
  \cup {Core("Text", t) : t \in {"CSS", "JS"}}

\* strings of the form type/subtype held by the enumerated
\* NonCoreMediaType values: top-level types of the core families and
\* others, subtypes the families define and others
NonCoreStrings ==
  {t \o "/" \o sub :
     t \in {"image", "application", "audio", "text", "foo", "font"},
     sub \in {"png", "webp", "css", "bar", "xhtml+xml"}}

\* the MediaType values written and read back
MediaTypeValues ==
  CoreMediaTypes \cup {NonCoreMediaType(x) : x \in NonCoreStrings}

\* a value of one of the two types, tagged with its type
InitTables ==
  /\ \/ \E m \in MediaTypeValues :
          original = Some([type |-> "MediaType", v |-> m])
     \/ \E p \in ManifestItemProperties :
          original = Some([type |-> "ManifestItemProperty", v |-> p])
  /\ written = None
  /\ read_back = None
  /\ pc = "to_string"
  /\ doc = <<>>
  /\ run = 1
  /\ unique_identifier = None
  /\ version = None
  /\ meta_data = None
  /\ manifest = None
  /\ spine = None
  /\ ran = <<>>
  /\ results = <<>>
  /\ archive = <<>>
  /\ package_documents = <<>>
  /\ paths = None
  /\ tokens = <<>>
  /\ tree = None

\* original.to_string()
Table_to_string ==
  /\ pc = "to_string"
  /\ written' = Some(IF original[1].type = "MediaType"
                     THEN MediaType_to_string(original[1].v)
                     ELSE ManifestItemProperty_to_string(original[1].v))
  /\ pc' = "from_str"
  /\ UNCHANGED <<doc, run, unique_identifier, version, meta_data, manifest,
                 spine, ran, results, reader_vars, original, read_back,
                 tree_vars>>

\* T::from_str(&written); the result is an Option
Table_from_str ==
  /\ pc = "from_str"
  /\ read_back' = Some(IF original[1].type = "MediaType"
                       THEN MediaType_from_str(written[1])
                       ELSE ManifestItemProperty_from_str(written[1]))
  /\ pc' = "done"
  /\ UNCHANGED <<doc, run, unique_identifier, version, meta_data, manifest,
                 spine, ran, results, reader_vars, original, written,
                 tree_vars>>

NextTables == Table_to_string \/ Table_from_str

SpecTables == InitTables /\ [][NextTables]_vars

\* the string written from a value of the type has been read back
ReadBack(type) ==
  pc = "done" /\ read_back # None /\ original[1].type = type

\* C27: for every MediaType value m, core or NonCoreMediaType of a string
\* type/subtype, MediaType::from_str(m.to_string()) is Ok(m).
C27_MediaTypeRoundTrip ==
  ReadBack("MediaType") => read_back[1] = Some(original[1].v)

\* C28: for every ManifestItemProperty value p,
\* ManifestItemProperty::from_str(p.to_string()) is Ok(p).
C28_PropertyRoundTrip ==
  ReadBack("ManifestItemProperty") => read_back[1] = Some(original[1].v)

----------------------------------------------------------------------------
(* Manifest::new called on items with several property tokens.             *)

\* most tokens in a properties attribute of the inputs
MaxTokens == 3

\* the tokens the enumerated properties attributes are written from: the
\* tokens the seven properties are written as, the spelling
\* remote_resources, and an undefined token
PropertyTokens ==
  {ManifestItemProperty_to_string(p) : p \in ManifestItemProperties}
  \cup {"remote_resources", "bogus"}

\* the tokens joined by the separator, which also precedes the first one
RECURSIVE JoinTokens(_, _)
JoinTokens(ts, sep) ==
  IF ts = <<>> THEN "" ELSE sep \o Head(ts) \o JoinTokens(Tail(ts), sep)

\* the manifest's nav item and, after it, the item with the properties
\* attribute ps (absent when None)
PropertiesManifest(ps) ==
  ManifestElement(
    <<ItemElement([media |-> XhtmlString, fallback |-> None,
                   props |-> NavString], "a", 1),
      ItemElement([media |-> XhtmlString, fallback |-> None, props |-> ps],
                  "b", 2)>>)

\* a package whose manifest has a nav item and an item whose properties
\* attribute is absent or written from at most MaxTokens tokens, separated
\* by one or by two blanks
InitProperties ==
  /\ \/ doc = <<PackageElement(<<>>, <<PropertiesManifest(None)>>)>>
     \/ \E n \in 0..MaxTokens, sep \in {" ", "  "} :
          \E ts \in [1..n -> PropertyTokens] :
            doc = <<PackageElement(<<>>,
                      <<PropertiesManifest(Some(JoinTokens(ts, sep)))>>)>>
  /\ pc = "Manifest::new"
  /\ run = 1
  /\ unique_identifier = None
  /\ version = None
  /\ meta_data = None
  /\ manifest = None
  /\ spine = None
  /\ ran = <<>>
  /\ results = <<>>
  /\ NoReaderNoTable

NextProperties == ManifestNew

SpecProperties == InitProperties /\ [][NextProperties]_vars

\* the whitespace-separated tokens of the item element's properties
\* attribute, none when it is absent
SourceTokens(e) ==
  LET p == get_attr(e.attributes, "properties")
  IN IF p = None THEN <<>> ELSE split_whitespace(p[1])

\* the property written as the token, if there is one
PropertyWrittenAs(t) ==
  LET ps == {p \in ManifestItemProperties :
               ManifestItemProperty_to_string(p) = t}
  IN IF ps = {} THEN None ELSE Some(CHOOSE p \in ps : TRUE)

\* C22: Manifest::new decodes every item element with id, href and a core
\* media type, whatever its properties attribute is, and the properties of
\* the decoded item are the properties its tokens are written for, in token
\* order, the other tokens left out; none for an absent attribute.
C22_PropertyTokens ==
  ManifestDone =>
    /\ manifest[1].ok
    /\ \A e \in Range(SourceItems) :
         \E i \in manifest[1].val.items :
           /\ i.id = SourceId(e)[1]
           /\ i.properties = FlatMap(SourceTokens(e), PropertyWrittenAs)

----------------------------------------------------------------------------
(* The reference scenario, checked under Spec.                             *)

\* C23: PackageDocument::new on the reference document succeeds, and the
\* decoded document has the unique identifier text "X", the first title
\* "T", the first language "en", the nav item with id "nav" and the spine
\* idrefs <<"nav">>.
C23_ConcreteScenario ==
  (RunReturned /\ doc = ConcreteDocument) =>
    /\ Returned.ok
    /\ Returned.val.unique_identifier = "id"
    /\ Returned.val.version = "3.0"
    /\ Returned.val.meta_data.unique_identifier.identifier = "X"
    /\ Returned.val.meta_data.titles[1].title = "T"
    /\ Returned.val.meta_data.languages[1].language = "en"
    /\ Returned.val.manifest.nav.id = "nav"
    /\ [i \in DOMAIN Returned.val.spine.items |->
          Returned.val.spine.items[i].idref] = <<"nav">>

\* C23 witness: the reference document has been decoded
C23_Witness ==
  /\ RunReturned
  /\ doc = ConcreteDocument
  /\ ran = <<"metadata", "manifest", "spine">>
  /\ Returned.ok

----------------------------------------------------------------------------
(* EPUBReader (src/src/read/mod.rs).  The archive is the sequence of the   *)
(* container's rootfiles: None where the archive has no entry of the       *)
(* rootfile's path, Some(xml) where the entry holds the document xml.      *)

\* most rootfiles before the last one in the archives given to
\* EPUBReader::new
MaxRootfiles == 2

\* longest list of <itemref> children in the documents given to
\* EPUBReader::spine_resources
MaxReaderItemRefs == 3

\* PackageDocument::new as a function of the tree: the set of results it
\* can return
PackageDocument_new(xml) ==
  LET pkg == package_of(xml)
  IN IF pkg = None THEN {Err("Package element not found.", <<>>)}
     ELSE LET attributes == pkg[1].attributes
              uid == attributes_get(attributes, "unique-identifier")
              ver == attributes_get(attributes, "version")
          IN IF uid = None
             THEN {Err("unique-identifier attribute is undefined.", <<>>)}
             ELSE IF ver = None
             THEN {Err("version attribute is undefined.", <<>>)}
             ELSE LET m == Metadata_new(pkg[1], uid[1])
                      s == Spine_new(pkg[1])
                  IN IF ~m.ok THEN {m}
                     ELSE {IF ~mf.ok THEN mf
                           ELSE IF ~s.ok THEN s
                           ELSE Ok([attributes |-> attribute_map(attributes),
                                    unique_identifier |-> uid[1],
                                    version |-> ver[1],
                                    meta_data |-> m.val,
                                    manifest |-> mf.val,
                                    spine |-> s.val]) :
                             mf \in Manifest_new(pkg[1])}

\* EPUBReader::package_document
package_document(pds) == IF pds = <<>> THEN None ELSE Some(pds[1])

\* spine_resources on the last package document instead of the first
spine_resources_Last(pds, items_iter) ==
  IF pds = <<>> THEN <<>>
  ELSE LET pd == pds[Len(pds)]
           resources == collect_map(items_iter)
       IN FlatMap(pd.spine.items,
                  LAMBDA i : IF i.idref \in DOMAIN resources
                             THEN <<resources[i.idref].href>> ELSE <<>>)

\* EPUBReader::spine_resources, for one iteration order of the item set of
\* the first package document
spine_resources(pds, items_iter) ==
  IF package_document(pds) = None THEN <<>>
  ELSE LET pd == package_document(pds)[1]
           resources == collect_map(items_iter)
       IN FlatMap(pd.spine.items,
                  LAMBDA i : IF i.idref \in DOMAIN resources
                             THEN <<resources[i.idref].href>> ELSE <<>>)

\* filter_map cut short at the first rootfile that is not decoded
RECURSIVE KeepOk_UntilFailure(_)
KeepOk_UntilFailure(rs) ==
  IF rs = <<>> THEN <<>>
  ELSE IF Head(rs) # None /\ Head(rs)[1].ok
       THEN <<Head(rs)[1].val>> \o KeepOk_UntilFailure(Tail(rs))
       ELSE <<>>

\* the results of PackageDocument::new kept by filter_map: the values of
\* the Ok results, in order
RECURSIVE KeepOk(_)
KeepOk(rs) ==
  IF rs = <<>> THEN <<>>
  ELSE (IF Head(rs) # None /\ Head(rs)[1].ok THEN <<Head(rs)[1].val>>
        ELSE <<>>) \o KeepOk(Tail(rs))

\* the manifests of the documents given to spine_resources: the nav item
\* alone, with a second item, with a second item of the same id
ReaderManifests ==
  {ManifestElement(ItemList(<<[media |-> XhtmlString, fallback |-> None,
                               props |-> NavString]>>
                            \o rest, f)) :
     rest \in {<<>>, <<[media |-> XhtmlString, fallback |-> None,
                        props |-> None]>>},
     f \in {<<1, 1>>, <<1, 2>>}}

\* the spines of the documents given to spine_resources: idrefs of the
\* manifest items and of no item, repeated or not
ReaderSpines ==
  UNION {{SpineElement(<<>>, [i \in 1..n |-> ItemRefElement(r[i])]) :
            r \in [1..n -> {"a", "b", AbsentId}]} :
           n \in 0..MaxReaderItemRefs}

\* a valid package document with the manifest and the spine
ReaderDocument(mf, sp) ==
  <<PackageElement(
      <<Attr("unique-identifier", PackageUid), Attr("version", "3.0")>>,
      <<MetadataElement(RequiredChildren), mf, sp>>)>>

\* the rootfiles before the last one: no archive entry, a document that
\* does not decode, the reference document
RootfileChoices == {None, Some(NoPackage), Some(ConcreteDocument)}

InitReader ==
  /\ \E n \in 0..MaxRootfiles :
       \E pre \in [1..n -> RootfileChoices] :
         \/ archive = pre
         \/ \E mf \in ReaderManifests, sp \in ReaderSpines :
              archive = pre \o <<Some(ReaderDocument(mf, sp))>>
  /\ package_documents = <<>>
  /\ paths = None
  /\ pc = "EPUBReader::new"
  /\ doc = <<>>
  /\ run = 1
  /\ unique_identifier = None
  /\ version = None
  /\ meta_data = None
  /\ manifest = None
  /\ spine = None
  /\ ran = <<>>
  /\ results = <<>>
  /\ original = None
  /\ written = None
  /\ read_back = None
  /\ tokens = <<>>
  /\ tree = None

\* EPUBReader::new after the rootfile paths are read: every rootfile is
\* looked up in the archive and decoded, results holds what each lookup and
\* PackageDocument::new gave (None for a missing entry)
EPUBReader_new ==
  /\ pc = "EPUBReader::new"
  /\ \E rs \in [DOMAIN archive ->
                  {None} \cup UNION {{Some(r) : r \in PackageDocument_new(a[1])} :
                                       a \in Range(archive) \ {None}}] :
       /\ \A i \in DOMAIN archive :
            IF archive[i] = None THEN rs[i] = None
            ELSE /\ rs[i] # None
                 /\ rs[i][1] \in PackageDocument_new(archive[i][1])
       /\ results' = rs
       /\ package_documents' = KeepOk(rs)
  /\ pc' = "reader"
  /\ UNCHANGED <<doc, run, unique_identifier, version, meta_data, manifest,
                 spine, ran, archive, paths, table_vars, tree_vars>>

\* reader.spine_resources()
SpineResources ==
  /\ pc = "reader"
  /\ IF package_documents = <<>>
     THEN paths' = Some(spine_resources(package_documents, <<>>))
     ELSE \E o \in Orders(package_documents[1].manifest.items) :
            paths' = Some(spine_resources(package_documents, o))
  /\ pc' = "done"
  /\ UNCHANGED <<doc, run, unique_identifier, version, meta_data, manifest,
                 spine, ran, results, archive, package_documents,
                 table_vars, tree_vars>>

NextReader == EPUBReader_new \/ SpineResources

SpecReader == InitReader /\ [][NextReader]_vars

\* EPUBReader::new has returned a reader
ReaderBuilt == pc \in {"reader", "done"} /\ Len(results) = Len(archive)

\* the itemrefs of the spine whose idref is the id of an item
Referencing(pd) ==
  FlatMap(pd.spine.items,
          LAMBDA i : IF \E m \in pd.manifest.items : m.id = i.idref
                     THEN <<i>> ELSE <<>>)

\* C24: spine_resources returns no path for a reader without package
\* document; otherwise it returns, for the first package document, one
\* path for each itemref whose idref is the id of a manifest item, in spine
\* order, the path being the href of a manifest item with that id.
C24_SpineResources ==
  (pc = "done" /\ paths # None) =>
    IF package_documents = <<>> THEN paths[1] = <<>>
    ELSE LET pd == package_documents[1]
             refs == Referencing(pd)
         IN /\ Len(paths[1]) = Len(refs)
            /\ \A k \in DOMAIN refs :
                 \E m \in pd.manifest.items :
                   m.id = refs[k].idref /\ m.href = paths[1][k]

\* C24 witness: the reader's first rootfile does not decode, and the spine
\* of its package document names item b, no item, and item b again
C24_Witness ==
  /\ pc = "done"
  /\ paths = Some(<<"2.xhtml", "2.xhtml">>)
  /\ Len(archive) = 2
  /\ archive[1] = Some(NoPackage)
  /\ [i \in DOMAIN package_documents[1].spine.items |->
        package_documents[1].spine.items[i].idref] = <<"b", AbsentId, "b">>

\* the positions of the rootfiles that were decoded
DecodedRootfiles ==
  {i \in DOMAIN results : results[i] # None /\ results[i][1].ok}

\* C30: EPUBReader::new returns a reader for every archive; its
\* package_documents are the documents of the rootfiles that have an
\* archive entry and decode, in rootfile order and nothing else, so none
\* when no rootfile decodes; package_document() is the document of the
\* first rootfile that decodes, or None.
C30_ReaderKeepsDecoded ==
  ReaderBuilt =>
    /\ \A i \in DOMAIN archive :
         IF archive[i] = None THEN results[i] = None
         ELSE results[i] # None
              /\ results[i][1] \in PackageDocument_new(archive[i][1])
    /\ Len(package_documents) = Cardinality(DecodedRootfiles)
    /\ \A i, j \in DecodedRootfiles :
         i < j =>
           \E k, l \in DOMAIN package_documents :
             /\ k < l
             /\ package_documents[k] = results[i][1].val
             /\ package_documents[l] = results[j][1].val
    /\ \A i \in DecodedRootfiles :
         \E k \in DOMAIN package_documents :
           package_documents[k] = results[i][1].val
    /\ IF DecodedRootfiles = {}
       THEN package_document(package_documents) = None
       ELSE \E i \in DecodedRootfiles :
              /\ \A j \in DecodedRootfiles : i <= j
              /\ package_document(package_documents) = Some(results[i][1].val)

\* C30 witness: a reader has been built from an archive whose first
\* rootfile has no entry, whose second does not decode and whose third
\* does
C30_Witness ==
  /\ ReaderBuilt
  /\ Len(archive) = 3
  /\ archive[1] = None
  /\ archive[2] = Some(NoPackage)
  /\ DecodedRootfiles = {3}
  /\ Len(package_documents) = 1

----------------------------------------------------------------------------
(* The tree builder (util::Xml::new), called by PackageDocument::new on    *)
(* the events of the XML reader.                                           *)

\* longest token stream given to the tree builder
MaxStream == 6

\* a token of the stream
Token(kind, name, text) == [kind |-> kind, name |-> name, text |-> text]

\* the tokens the enumerated streams are written from: the start and the
\* end of two elements, two runs of character data, a comment
TokenChoices ==
  {Token("StartElement", "a", ""), Token("EndElement", "a", ""),
   Token("StartElement", "b", ""), Token("EndElement", "b", ""),
   Token("Characters", "", "x"), Token("Characters", "", "y"),
   Token("Comment", "", "c")}

\* a comment node
Comment(text) ==
  [event |-> "Comment", name |-> OwnedName("", None, None),
   attributes |-> <<>>, children |-> <<>>, text |-> text]

\* the child attached before the children already built
push_child_Front(children, child) == <<child>> \o children

\* the child attached after the children already built
push_child(children, child) == Append(children, child)

\* the derived text content of an element with the children: the character
\* data below it, comments left out
RECURSIVE text_content(_)
text_content(children) ==
  IF children = <<>> THEN ""
  ELSE (IF Head(children).event = "Comment" THEN ""
        ELSE Head(children).text) \o text_content(Tail(children))

\* one subtree from the head of the stream: elem is None when the stream
\* is exhausted or malformed at this position, rest is what is left
RECURSIVE XmlElement_new(_)
RECURSIVE children_new(_, _, _)
XmlElement_new(ts) ==
  IF ts = <<>> THEN [elem |-> None, rest |-> ts]
  ELSE LET t == Head(ts)
       IN CASE t.kind = "StartElement" ->
                 LET c == children_new(Tail(ts), t.name, <<>>)
                 IN IF ~c.ok THEN [elem |-> None, rest |-> c.rest]
                    ELSE [elem |-> Some(StartElement(
                                          OwnedName(t.name, None, None), <<>>,
                                          c.children,
                                          text_content(c.children))),
                          rest |-> c.rest]
            [] t.kind = "Characters" ->
                 [elem |-> Some(Characters(t.text)), rest |-> Tail(ts)]
            [] t.kind = "Comment" ->
                 [elem |-> Some(Comment(t.text)), rest |-> Tail(ts)]
            [] OTHER -> [elem |-> None, rest |-> ts]

\* the children of the element name: subtrees are built until the next
\* token is the end of the element, which is consumed
children_new(ts, name, children) ==
  IF ts = <<>> THEN [ok |-> FALSE, children |-> children, rest |-> ts]
  ELSE IF Head(ts).kind = "EndElement" /\ Head(ts).name = name
  THEN [ok |-> TRUE, children |-> children, rest |-> Tail(ts)]
  ELSE LET r == XmlElement_new(ts)
       IN IF r.elem = None
          THEN [ok |-> FALSE, children |-> children, rest |-> r.rest]
          ELSE children_new(r.rest, name, push_child(children, r.elem[1]))

\* Xml::new: one element per top-level construct, until the stream is
\* exhausted or gives no element
RECURSIVE Xml_new(_)
Xml_new(ts) ==
  LET r == XmlElement_new(ts)
  IN IF r.elem = None THEN <<>> ELSE <<r.elem[1]>> \o Xml_new(r.rest)

InitTree ==
  /\ \E n \in 0..MaxStream : tokens \in [1..n -> TokenChoices]
  /\ tree = None
  /\ pc = "Xml::new"
  /\ doc = <<>>
  /\ run = 1
  /\ unique_identifier = None
  /\ version = None
  /\ meta_data = None
  /\ manifest = None
  /\ spine = None
  /\ ran = <<>>
  /\ results = <<>>
  /\ archive = <<>>
  /\ package_documents = <<>>
  /\ paths = None
  /\ original = None
  /\ written = None
  /\ read_back = None

\* let xml = Xml::new(&mut parser.into_iter().peekable())
XmlNew ==
  /\ pc = "Xml::new"
  /\ tree' = Some(Xml_new(tokens))
  /\ pc' = "done"
  /\ UNCHANGED <<doc, run, unique_identifier, version, meta_data, manifest,
                 spine, ran, results, reader_vars, table_vars, tokens>>

NextTree == XmlNew

SpecTree == InitTree /\ [][NextTree]_vars

\* the stream is well formed: every end token closes the innermost open
\* element, and no element is left open
RECURSIVE Balanced(_, _)
Balanced(ts, open) ==
  IF ts = <<>> THEN open = <<>>
  ELSE LET t == Head(ts)
       IN CASE t.kind = "StartElement" ->
                 Balanced(Tail(ts), <<t.name>> \o open)
            [] t.kind = "EndElement" ->
                 open # <<>> /\ Head(open) = t.name
                 /\ Balanced(Tail(ts), Tail(open))
            [] OTHER -> Balanced(Tail(ts), open)

WellFormed(ts) == Balanced(ts, <<>>)

\* the tokens of the nodes, each node followed by its children in the
\* order the tree holds them
RECURSIVE TokensOf(_)
TokensOf(nodes) ==
  IF nodes = <<>> THEN <<>>
  ELSE LET e == Head(nodes)
       IN (CASE e.event = "StartElement" ->
                  <<Token("StartElement", e.name.local_name, "")>>
                  \o TokensOf(e.children)
                  \o <<Token("EndElement", e.name.local_name, "")>>
             [] e.event = "Characters" -> <<Token("Characters", "", e.text)>>
             [] OTHER -> <<Token("Comment", "", e.text)>>)
          \o TokensOf(Tail(nodes))

\* the character data of the tokens, in their order
RECURSIVE CharacterData(_)
CharacterData(ts) ==
  IF ts = <<>> THEN ""
  ELSE (IF Head(ts).kind = "Characters" THEN Head(ts).text ELSE "")
       \o CharacterData(Tail(ts))

\* the elements of the nodes, at every depth
RECURSIVE ElementsOf(_)
ElementsOf(nodes) ==
  IF nodes = <<>> THEN {}
  ELSE (IF Head(nodes).event = "StartElement"
        THEN {Head(nodes)} \cup ElementsOf(Head(nodes).children)
        ELSE {})
       \cup ElementsOf(Tail(nodes))

\* the nesting depth of the nodes
RECURSIVE Depth(_)
Depth(nodes) ==
  IF nodes = <<>> THEN 0
  ELSE LET d == IF Head(nodes).event = "StartElement"
                THEN 1 + Depth(Head(nodes).children) ELSE 0
           r == Depth(Tail(nodes))
       IN IF d > r THEN d ELSE r

\* C25: for a well-formed token stream, the tree holds the top-level
\* constructs and, at every element, the children in the order of the
\* stream (writing each node followed by its children gives the stream
\* back), and the text content of every element, at every depth, is the
\* character data of the tokens below it in their order, comments left out.
C25_TreeOrderAndText ==
  (pc = "done" /\ tree # None /\ WellFormed(tokens)) =>
    /\ TokensOf(tree[1]) = tokens
    /\ \A e \in ElementsOf(tree[1]) :
         inner_text(e) = CharacterData(TokensOf(e.children))

\* C25 witness: a tree was built from a well-formed stream with an element
\* nested in another, character data on both sides of the inner element
\* and inside it
C25_Witness ==
  /\ pc = "done"
  /\ tree # None
  /\ WellFormed(tokens)
  /\ Len(tokens) = 6
  /\ Depth(tree[1]) = 2
  /\ \E e \in ElementsOf(tree[1]) : inner_text(e) = "xy"

----------------------------------------------------------------------------
(* The length of the fallback walks of Manifest::new, checked under        *)
(* SpecManifest.                                                           *)

\* the calls of chain in one walk, were the history searched for a second
\* occurrence of the fallback id
RECURSIVE chain_steps_SecondVisit(_, _, _)
chain_steps_SecondVisit(item, map, vec) ==
  IF is_core_media_type(item.media_type) THEN 1
  ELSE IF item.fallback = None THEN 1
  ELSE LET fallback_id == item.fallback[1]
       IN IF fallback_id \notin DOMAIN map THEN 1
          ELSE IF Cardinality({i \in DOMAIN vec : vec[i] = fallback_id}) >= 2
          THEN 1
          ELSE 1 + chain_steps_SecondVisit(map[fallback_id], map,
                                           Append(vec, fallback_id))

\* the calls of chain in the walk from item: one for the item, and one more
\* for every fallback id pushed on the history
RECURSIVE chain_steps(_, _, _)
chain_steps(item, map, vec) ==
  IF is_core_media_type(item.media_type) THEN 1
  ELSE IF item.fallback = None THEN 1
  ELSE LET fallback_id == item.fallback[1]
       IN IF fallback_id \notin DOMAIN map THEN 1
          ELSE IF Contains(vec, fallback_id) THEN 1
          ELSE 1 + chain_steps(map[fallback_id], map,
                               Append(vec, fallback_id))

\* the items Manifest::new collects from the document's manifest section
CollectedItems ==
  LET pkg == package_of(doc)
      sec == IF pkg = None THEN None ELSE find_section(pkg[1], "manifest")
  IN IF sec = None THEN {} ELSE Range(Manifest_items(sec[1]))

\* the id maps Manifest::new can build from the collected items
CollectedMaps == {collect_map(io) : io \in Orders(CollectedItems)}

\* C26: for every manifest (fallback cycles, self references, dangling
\* fallbacks and duplicate ids included) every fallback walk of
\* Manifest::new ends, with Ok or an error, after at most (number of
\* distinct item ids + 1) calls of chain; so the recursion below the first
\* call is at most as deep as there are items.
C26_WalkBounded ==
  ManifestDone =>
    \A map \in CollectedMaps :
      \A k \in DOMAIN map :
        /\ chain(map[k], map, <<>>).ok \in BOOLEAN
        /\ chain_steps(map[k], map, <<>>) <= Cardinality(DOMAIN map) + 1
        /\ chain_steps(map[k], map, <<>>) - 1 <= Cardinality(CollectedItems)

\* C26 witness: Manifest::new has returned for a manifest of three items
\* whose fallbacks form a cycle, and a walk took as many calls as there are
\* ids and one more
C26_Witness ==
  /\ ManifestDone
  /\ \E map \in CollectedMaps :
       /\ Cardinality(DOMAIN map) = 3
       /\ \E k \in DOMAIN map :
            /\ chain_steps(map[k], map, <<>>) = 4
            /\ chain(map[k], map, <<>>).err.msg
                 = "Fallback chain has circular-references"

----------------------------------------------------------------------------
(* PackageDocument::new called on one document in several spellings of its *)
(* qualified names.                                                        *)

\* a namespace that is neither the OPF nor the Dublin Core namespace
OtherNamespace == "urn:other"

\* the prefixes a document binds to the Dublin Core namespace
DcPrefixes == {Some("dc"), Some("d")}

\* the prefixes of an element in the OPF namespace: the default namespace,
\* or a prefix bound to it
OpfPrefixes == {None, Some("opf")}

\* the reference document with the prefixes of its identifier, title,
\* language, creator, item and itemref, and the namespace of its manifest
\* section, as given
SpelledDocument(w) ==
  <<PackageElement(
      <<Attr("unique-identifier", "id"), Attr("version", "3.0")>>,
      <<MetadataElement(
          <<StartElement(OwnedName("identifier", Some(DC), w.identifier),
                         <<Attr("id", "id")>>, <<>>, "X"),
            StartElement(OwnedName("title", Some(DC), w.title),
                         <<>>, <<>>, "T"),
            StartElement(OwnedName("language", Some(DC), w.language),
                         <<>>, <<>>, "en"),
            StartElement(OwnedName("creator", Some(DC), w.creator),
                         <<>>, <<>>, "C")>>),
        StartElement(OwnedName("manifest", Some(w.manifest), None), <<>>,
          <<StartElement(OwnedName("item", Some(OPF), w.item),
                         <<Attr("id", "nav"), Attr("href", "nav.xhtml"),
                           Attr("media-type", XhtmlString),
                           Attr("properties", "nav")>>, <<>>, "")>>, ""),
        SpineElement(<<>>,
          <<StartElement(OwnedName("itemref", Some(OPF), w.itemref),
                         <<Attr("idref", "nav")>>, <<>>, "")>>)>>)>>

Spellings ==
  [identifier : DcPrefixes, title : DcPrefixes, language : DcPrefixes,
   creator : DcPrefixes, item : OpfPrefixes, itemref : OpfPrefixes,
   manifest : {OPF, OtherNamespace}]

InitNames ==
  /\ \E w \in Spellings : doc = SpelledDocument(w)
  /\ pc = "PackageDocument::new"
  /\ run = 1
  /\ unique_identifier = None
  /\ version = None
  /\ meta_data = None
  /\ manifest = None
  /\ spine = None
  /\ ran = <<>>
  /\ results = <<>>
  /\ NoReaderNoTable

\* PackageDocument::new(doc)
PackageDocumentNew ==
  /\ pc = "PackageDocument::new"
  /\ \E r \in PackageDocument_new(doc) : results' = <<r>>
  /\ pc' = "done"
  /\ UNCHANGED <<doc, run, unique_identifier, version, meta_data, manifest,
                 spine, ran, reader_vars, table_vars, tree_vars>>

NextNames == PackageDocumentNew

SpecNames == InitNames /\ [][NextNames]_vars

\* the name with the prefix the decoder's names have for its namespace
UsualName(name) ==
  IF name.namespace = Some(DC) THEN [name EXCEPT !.prefix = Some("dc")]
  ELSE IF name.namespace = Some(OPF) THEN [name EXCEPT !.prefix = None]
  ELSE name

\* the nodes with every element name in its usual spelling
RECURSIVE UsualSpelling(_)
UsualSpelling(nodes) ==
  [i \in DOMAIN nodes |->
     [nodes[i] EXCEPT !.name = UsualName(@),
                      !.children = UsualSpelling(@)]]

\* the nodes without the elements outside the OPF namespace
InOpf(nodes) ==
  FlatMap(nodes, LAMBDA e : IF e.name.namespace = Some(OPF)
                            THEN <<e>> ELSE <<>>)

\* the document as matching by namespace and local name reads it: the
\* usual spelling, the children of the package that are not OPF elements
\* left out
ReadByNamespace(xml) ==
  LET u == UsualSpelling(xml)
  IN [i \in DOMAIN u |-> [u[i] EXCEPT !.children = InOpf(@)]]

\* PackageDocument::new has returned for the spelled document
NamesDone == pc = "done" /\ Len(results) = 1

\* C29: elements are matched by namespace and local name, whatever prefix
\* the document binds to the namespace, and the sections of the package by
\* the same rule: what PackageDocument::new returns for a document is what
\* it returns for the document in the usual spelling (dc: for Dublin Core,
\* no prefix for OPF), a manifest element of another namespace being no
\* manifest section.
C29_UniformMatching ==
  NamesDone => results[1] \in PackageDocument_new(ReadByNamespace(doc))

====
